---------------------------- MODULE Spec2Model ----------------------------
(***************************************************************************)
(* Model of the tuya_agent ingestion pipeline: the SQLite log storage      *)
(* (storage.py), the batch log collector (collector.py) and the real-time  *)
(* event watcher (watcher.py).  The collector (`collect`) and the watcher  *)
(* (`watch`) are separate commands of __main__.py that share one database  *)
(* file, so their storage transactions interleave; every step of this      *)
(* model is the code between two awaits or two commits.                    *)
(***************************************************************************)
EXTENDS Integers, Sequences, FiniteSets, TLC

(***************************************************************************)
(* Bounds of the model (not program constants).                            *)
(***************************************************************************)
\* number of clock ticks; event times are multiples of one tick
MaxTick == 2
\* most entries the log API returns for one device pass
MaxRecords == 2
\* pages after which the honest log API has no further page
MaxSourcePages == 2
\* live messages the feed delivers
MaxLive == 2
\* connection losses of the live feed
MaxDrops == 2
\* collection runs of the daemon
MaxRuns == 2
\* longest batch handed to insert_logs in the storage-only specification
MaxBatch == 3
\* events the broadcaster's subscription yields
MaxFanned == 3
\* queues EventBroadcaster.subscribe hands out
MaxSubs == 2
\* depth of a subscriber queue (asyncio.Queue(maxsize=256) in the program)
MaxQueue == 2
\* tasks EventBroadcaster.start creates
MaxTasks == 3
\* entries of the device listing the model keeps
MaxListed == 4

(***************************************************************************)
(* Program constants.                                                      *)
(***************************************************************************)
MAX_PAGES_PER_DEVICE == 100
MAX_RETRIES == 3
RATE_LIMIT_CODE == 40000309
\* client.py:149, the code of an API error that names none
UNKNOWN_ERROR_CODE == -1
\* collector.py:218, "Overlap by 1 second"
OVERLAP_MS == 1000
\* CollectorConfig.lookback_days
lookback_days == 7
\* Python's None for an absent bookmark (times are never negative)
NoBookmark == -1

VARIABLES
    \* ---- storage.py: the three tables
    device_logs,            \* set of stored rows
    collection_bookmarks,   \* device_id -> last_event_time, partial
    collection_runs,        \* sequence of run rows, index = run id
    \* ---- wall clock (time.time() in ms)
    now,
    \* ---- collector.py: position and locals of collect_all and callees
    cpc,
    run_id,
    devices,
    dev_i,
    result,
    now_ms,
    bookmark,
    start_time,
    records,
    last_row_key,
    prev_row_key,
    page,
    attempt,
    data,
    inserted,
    \* ---- watcher.py: position and locals of EventWatcher._stream
    wpc,
    event,
    count,
    delivered,
    \* ---- events.py: EventsMixin.subscribe and the message source
    cur,                    \* the raw message the socket last handed over
    msg,                    \* the local msg: what json.loads last returned
    pending,                \* messages the source holds unacknowledged
    drops,                  \* connection losses so far
    seen,                   \* <<event, event_id>> pairs of event_to_record
    \* ---- server.py: EventBroadcaster
    bpc,                    \* position of the task _subscribe_loop
    subscribers,            \* _subscribers: list of queues (by index)
    queues,                 \* every queue subscribe() has created
    fanned,                 \* the events _subscribe_loop was handed
    task,                   \* _task: the task the field names, 0 for None
    tasks,                  \* every task start() has created: its state
    stopping,               \* the task a suspended stop() awaits, 0 = none
    \* ---- observation of the storage calls (not program state)
    lastSet,                \* arguments of the last set_device_bookmark
                            \* call of the storage-only specification
    raced,                  \* start() created a task while a stop() was
                            \* suspended
    \* ---- observation of the listing (not program state)
    relisted,               \* parity of the listing pages answered with
                            \* the batch and the cursor of the page before
    \* ---- observation of the run (not program state)
    pages,                  \* _fetch_logs_page calls made for the device
    answers,                \* what the API answered to the current page's calls
    delays,                 \* backoff sleeps of the current page
    retKeys,                \* next_row_key of the last two pages returned
    exhausted,              \* device indexes whose retries ran out
    apiFailed,              \* device indexes whose page fetch raised
    submitted,              \* <<key, path>> pairs handed to insert_logs
    reportedNew             \* <<key, path>> pairs counted in a rowcount

storeVars == <<device_logs, collection_bookmarks, collection_runs>>
collVars == <<cpc, run_id, devices, dev_i, result, now_ms, bookmark,
              start_time, records, last_row_key, prev_row_key, page,
              attempt, data, inserted>>
watchVars == <<wpc, event, count, delivered, cur, msg, pending, drops, seen>>
obsVars == <<pages, answers, delays, retKeys, exhausted, apiFailed, submitted,
             reportedNew>>
lifeVars == <<task, tasks, stopping, raced>>
bcastVars == <<bpc, subscribers, queues, fanned, lifeVars>>
vars == <<storeVars, now, collVars, watchVars, bcastVars, lastSet, relisted,
          obsVars>>

(***************************************************************************)
(* Value domains.                                                          *)
(***************************************************************************)
DeviceIds == {"d1", "d2"}
\* the device list of the cloud project; one entry has no id
Inventory == <<"d1", "", "d2">>
EventTimes == {k * OVERLAP_MS : k \in 1..MaxTick}
Cursors == {"A", "B"}
ErrorCodes == {RATE_LIMIT_CODE, UNKNOWN_ERROR_CODE}
\* the event_id values the log API hands out
ApiEventIds == {1}

\* the dataclass LogRecord without the payload fields no operation reads
LogRecord(d, id, t, from) ==
    [device_id |-> d, event_id |-> id, event_time |-> t, event_from |-> from]

\* the (resource, event key, event time) tuple of a record or of a row
KeyOf(r) == <<r.device_id, r.event_id, r.event_time>>

Keys(rs) == {KeyOf(r) : r \in rs}

SeqRange(s) == {s[i] : i \in 1..Len(s)}

\* sequences over S of length at most n
RECURSIVE SeqsUpTo(_, _)
SeqsUpTo(S, n) ==
    IF n = 0 THEN {<<>>}
    ELSE LET shorter == SeqsUpTo(S, n - 1)
         IN  shorter \cup {Append(s, x) : s \in shorter, x \in S}

(***************************************************************************)
(* storage.py                                                              *)
(***************************************************************************)
\* variant: the constraint also covers event_from
UniqueColumnsWithOrigin(r) ==
    <<r.device_id, r.event_id, r.event_time, r.event_from>>

\* _SCHEMA: the columns of UNIQUE(device_id, event_id, event_time)
UniqueColumns(r) == <<r.device_id, r.event_id, r.event_time>>

\* variant: a plain INSERT into a table without the constraint
InsertPlain(logs, r) == logs \cup {r}

\* one INSERT OR IGNORE statement under the UNIQUE constraint; a row is
\* the record (the id, collected_at and payload columns are never read
\* back by the pipeline)
InsertOrIgnore(logs, r) ==
    IF \E s \in logs : UniqueColumns(s) = UniqueColumns(r) THEN logs
    ELSE logs \cup {r}

\* executemany: the statements run in list order, rowcount sums the
\* rows each statement changed
RECURSIVE executemany(_, _)
executemany(logs, recs) ==
    IF recs = <<>> THEN [logs |-> logs, rowcount |-> 0, new |-> {}]
    ELSE LET r == Head(recs)
             after == InsertOrIgnore(logs, r)
             changed == after # logs
             rest == executemany(after, Tail(recs))
         IN  [logs |-> rest.logs,
              rowcount |-> rest.rowcount + (IF changed THEN 1 ELSE 0),
              new |-> rest.new \cup (IF changed THEN {KeyOf(r)} ELSE {})]

\* variant: the return value is the number of records submitted
insert_logs_counts_submitted(logs, recs) ==
    [executemany(logs, recs) EXCEPT !.rowcount = Len(recs)]

\* LogStorage.insert_logs
insert_logs(logs, recs) ==
    IF recs = <<>> THEN [logs |-> logs, rowcount |-> 0, new |-> {}]
    ELSE executemany(logs, recs)

\* LogStorage.get_device_bookmark
get_device_bookmark(bms, d) ==
    IF d \in DOMAIN bms THEN bms[d] ELSE NoBookmark

\* variant: the bookmark only moves forward
set_device_bookmark_forward(bms, d, t) ==
    [x \in DOMAIN bms \cup {d} |->
        IF x = d /\ (d \notin DOMAIN bms \/ bms[d] < t) THEN t ELSE bms[x]]

\* LogStorage.set_device_bookmark: upsert
set_device_bookmark(bms, d, t) ==
    [x \in DOMAIN bms \cup {d} |-> IF x = d THEN t ELSE bms[x]]

\* LogStorage.record_run_start
record_run_start(runs) ==
    Append(runs, [status |-> "running", devices_count |-> 0,
                  logs_collected |-> 0, finished |-> FALSE])

\* variant: the counts of the run are not written
record_run_end_without_counts(runs, id, devs, logs, status) ==
    [runs EXCEPT ![id] = [status |-> status, devices_count |-> 0,
                          logs_collected |-> 0, finished |-> TRUE]]

\* LogStorage.record_run_end
record_run_end(runs, id, devs, logs, status) ==
    [runs EXCEPT ![id] = [status |-> status, devices_count |-> devs,
                          logs_collected |-> logs, finished |-> TRUE]]

(***************************************************************************)
(* watcher.py: event_to_record                                             *)
(***************************************************************************)
EventTypes == {"online", "status"}
\* event.data: the items of the dict in insertion order
EventData ==
    {<<>>, << <<"a", 1>>, <<"b", 1>> >>, << <<"b", 1>>, <<"a", 1>> >>,
     << <<"a", 2>>, <<"b", 1>> >>}
LiveEvents ==
    [device_id : DeviceIds, timestamp : EventTimes,
     event_type : EventTypes, data : EventData]
NoEvent == [device_id |-> "", timestamp |-> 0, event_type |-> "", data |-> <<>>]
\* the messages the live feed delivers in the full specification
FeedEvents == {e \in LiveEvents : e.event_type = "status" /\ e.data = <<>>}

\* what a raw message of the feed can be: the JSON object of an event, or
\* text that is no JSON, JSON that is no object, an object without
\* payload, with a payload that does not decode, or with one that decodes
\* to something other than an object
Malformed ==
    {"not_json", "not_object", "no_payload", "bad_payload",
     "payload_not_object"}
MessageBodies ==
    [kind : {"event"}, event : FeedEvents]
        \cup [kind : Malformed, event : {NoEvent}]
EventBodies == [kind : {"event"}, event : FeedEvents]
Message(i, body) ==
    [messageId |-> i, kind |-> body.kind, event |-> body.event]
\* msg before the first assignment
Unbound == [messageId |-> 0, kind |-> "unbound", event |-> NoEvent]
PendingIds(ms) == {m.messageId : m \in ms}

\* the dict keys of the model, in the order sort_keys puts them
KeyAlphabet == <<"a", "b">>

\* the keys of a dict, sorted
SortedKeys(ks) == SelectSeq(KeyAlphabet, LAMBDA k : k \in ks)

\* the keys of a dict, as a set and in insertion order, and d[k]
KeysOf(d) == {d[i][1] : i \in 1..Len(d)}
KeyOrder(d) == [i \in 1..Len(d) |-> d[i][1]]
ValueOf(d, k) == d[CHOOSE i \in 1..Len(d) : d[i][1] = k][2]

\* Python's == on two dicts
SameDict(d1, d2) == SeqRange(d1) = SeqRange(d2)

\* the text of the items of d taken in the key order ks
RECURSIVE JoinItems(_, _)
JoinItems(d, ks) ==
    IF ks = <<>> THEN ""
    ELSE Head(ks) \o ":" \o ToString(ValueOf(d, Head(ks))) \o ","
             \o JoinItems(d, Tail(ks))

\* variant: json.dumps(event.data), the items in insertion order
json_dumps(d) == "{" \o JoinItems(d, KeyOrder(d)) \o "}"

\* json.dumps(event.data, sort_keys=True)
json_dumps_sorted(d) == "{" \o JoinItems(d, SortedKeys(KeysOf(d))) \o "}"

\* the f-string hashed into the event_id
IdPayload(e) ==
    e.device_id \o ":" \o ToString(e.timestamp) \o ":" \o e.event_type
        \o ":" \o json_dumps_sorted(e.data)

RECURSIVE Enumerate(_)
Enumerate(S) ==
    IF S = {} THEN <<>>
    ELSE LET x == CHOOSE y \in S : TRUE IN <<x>> \o Enumerate(S \ {x})

PayloadTable == Enumerate({IdPayload(e) : e \in LiveEvents})

\* int(sha256(payload).hexdigest()[:15], 16): a digest with no collision
\* among the payloads of the model
Digest(p) == CHOOSE i \in 1..Len(PayloadTable) : PayloadTable[i] = p

event_to_record(e) ==
    LogRecord(e.device_id, Digest(IdPayload(e)), e.timestamp, "ws")

(***************************************************************************)
(* collector.py: helpers                                                   *)
(***************************************************************************)
\* LogRecord.from_api; the API's entries carry event_from "1"
from_api(d, entry) == LogRecord(d, entry.event_id, entry.event_time, "1")

\* the entries the log API holds inside a query window
ApiEntries(lo, hi) ==
    [event_id : ApiEventIds,
     event_time : {t \in EventTimes : lo <= t /\ t <= hi}]

\* variant: while page <= MAX_PAGES_PER_DEVICE
PageLoopGuardInclusive(p) == p <= MAX_PAGES_PER_DEVICE

\* while page < MAX_PAGES_PER_DEVICE
PageLoopGuard(p) == p < MAX_PAGES_PER_DEVICE

\* for attempt in range(MAX_RETRIES)
RetryGuard(a) == a < MAX_RETRIES

\* variant: a fixed delay
BackoffDelayFixed(a) == 10

\* delay = 10 * (2 ** attempt)
BackoffDelay(a) == 10 * (2 ^ a)

\* if not new_row_key or new_row_key == prev_row_key: break
StallGuard(new, prev) == new = "" \/ new = prev

\* variant: the window always starts at the lookback default
QueryStartLookback(bm, t) == t - lookback_days * 24 * 60 * 60 * 1000

\* variant: the window starts at the bookmark itself
QueryStartNoOverlap(bm, t) ==
    IF bm # NoBookmark THEN bm
    ELSE t - lookback_days * 24 * 60 * 60 * 1000


\* lower bound of the query window
QueryStart(bm, t) ==
    IF bm # NoBookmark THEN bm - OVERLAP_MS
    ELSE t - lookback_days * 24 * 60 * 60 * 1000

\* variant: the event_time of the last record fetched
LastEventTime(recs) == recs[Len(recs)].event_time

\* max(r.event_time for r in records)
RECURSIVE MaxEventTime(_)
MaxEventTime(recs) ==
    IF Len(recs) = 1 THEN recs[1].event_time
    ELSE LET m == MaxEventTime(Tail(recs))
         IN  IF recs[1].event_time > m THEN recs[1].event_time ELSE m

NoData == [ok |-> FALSE, logs |-> <<>>, has_next |-> FALSE, next_row_key |-> ""]
NewResult ==
    [devices_found |-> 0, devices_collected |-> 0, devices_failed |-> 0,
     logs_collected |-> 0, errors |-> <<>>]
\* variant: the status does not look at the error list
RunStatusAlwaysCompleted(res) == "completed"
RunStatus(res) ==
    IF res.errors = <<>> THEN "completed" ELSE "completed_with_errors"

\* variant: the failure is counted and no error string is kept
RecordFailureUnlabeled(res, d) == [res EXCEPT !.devices_failed = @ + 1]

\* except Exception: devices_failed += 1; errors.append(msg); the message
\* starts with the name and the id of the device
RecordFailure(res, d) ==
    [res EXCEPT !.devices_failed = @ + 1, !.errors = Append(@, d)]

\* the awaits of collect_all and its callees, where a cancellation of the
\* task is delivered
AwaitPoints == {"discover", "fetch", "page_sleep", "backoff", "device_sleep"}

\* collect_all has returned or raised
Exited == {"returned", "raised", "cancelled"}

Last2(s) == IF Len(s) <= 2 THEN s ELSE SubSeq(s, Len(s) - 1, Len(s))

(***************************************************************************)
(* server.py: EventBroadcaster.  A queue is an asyncio.Queue with the      *)
(* entries not yet read (items); got is what its reader has read and subAt *)
(* the number of events handed to the broadcaster before the queue was     *)
(* created, both kept for the properties only.                             *)
(***************************************************************************)
\* the events the broadcaster's own subscription yields: two events of
\* one device and time that differ in their type (_fan_out reads no field)
BroadcastEvents ==
    {e \in LiveEvents : /\ e.device_id = "d1"
                        /\ e.timestamp = OVERLAP_MS
                        /\ e.data = <<>>}

\* the dict _fan_out builds from the event (product_id is not modelled)
Payload(e) ==
    [event_type |-> e.event_type, device_id |-> e.device_id,
     data |-> e.data, timestamp |-> e.timestamp]

NewQueue(n) == [items |-> <<>>, got |-> <<>>, subAt |-> n]

\* Queue.full()
Full(qs, q) == Len(qs[q].items) >= MaxQueue

Registered(subs) == {subs[i] : i \in DOMAIN subs}

\* variant: list.pop(), the last entry goes whatever q is
RemoveLast(subs, q) ==
    IF subs = <<>> THEN subs ELSE SubSeq(subs, 1, Len(subs) - 1)

\* list.remove(q) inside try/except ValueError: the first entry equal to q
\* goes, and a list without q stays as it is
RECURSIVE Remove(_, _)
Remove(subs, q) ==
    IF subs = <<>> THEN <<>>
    ELSE IF Head(subs) = q THEN Tail(subs)
    ELSE <<Head(subs)>> \o Remove(Tail(subs), q)

\* for q in dead: self.unsubscribe(q)
RECURSIVE UnsubscribeEach(_, _)
UnsubscribeEach(subs, dead) ==
    IF dead = <<>> THEN subs
    ELSE UnsubscribeEach(Remove(subs, Head(dead)), Tail(dead))

\* variant: QueueFull is swallowed and the queue stays registered
DeadNone(subs, qs) == <<>>

\* the list dead of _fan_out: the subscribers whose put_nowait raised
\* QueueFull, in list order
Dead(subs, qs) == SelectSeq(subs, LAMBDA q : Full(qs, q))

\* variant: the payload is put at the head of the queue
PutFirst(items, p) == <<p>> \o items

\* Queue.put_nowait on a queue that is not full
PutNowait(items, p) == Append(items, p)

\* the queues after the first loop of _fan_out
FanOutQueues(subs, qs, p) ==
    [q \in DOMAIN qs |->
        IF q \in Registered(subs) /\ ~Full(qs, q)
        THEN [qs[q] EXCEPT !.items = PutNowait(@, p)]
        ELSE qs[q]]

\* the task is started and no client is connected
BroadcasterInit ==
    /\ bpc = "listening"
    /\ subscribers = <<>>
    /\ queues = <<>>
    /\ fanned = <<>>
    /\ task = 0
    /\ tasks = <<>>
    /\ stopping = 0
    /\ raced = FALSE

(***************************************************************************)
(* Initial state: a new database, collector and watcher not yet started.   *)
(***************************************************************************)
CollectorIdle ==
    /\ cpc = "idle"
    /\ run_id = 0
    /\ devices = <<>>
    /\ dev_i = 0
    /\ result = NewResult
    /\ now_ms = 0
    /\ bookmark = NoBookmark
    /\ start_time = 0
    /\ records = <<>>
    /\ last_row_key = "None"
    /\ prev_row_key = "None"
    /\ page = 0
    /\ attempt = 0
    /\ data = NoData
    /\ inserted = 0

\* no subscription: nothing received, nothing held by the source
FeedIdle ==
    /\ cur = Unbound
    /\ msg = Unbound
    /\ pending = {}
    /\ drops = 0
    /\ seen = {}

ObsInit ==
    /\ pages = 0
    /\ answers = <<>>
    /\ delays = <<>>
    /\ retKeys = <<>>
    /\ exhausted = {}
    /\ apiFailed = {}
    /\ submitted = {}
    /\ reportedNew = {}

Init ==
    /\ device_logs = {}
    /\ collection_bookmarks = <<>>
    /\ collection_runs = <<>>
    /\ now \in EventTimes
    /\ CollectorIdle
    /\ wpc = "recv"
    /\ event = NoEvent
    /\ count = 0
    /\ delivered = 0
    /\ FeedIdle
    /\ ObsInit
    /\ BroadcasterInit
    /\ lastSet = <<>>
    /\ relisted = 0

(***************************************************************************)
(* The wall clock.                                                         *)
(***************************************************************************)
Tick ==
    /\ now < MaxTick * OVERLAP_MS
    /\ now' = now + OVERLAP_MS
    /\ UNCHANGED <<storeVars, collVars, watchVars, bcastVars, lastSet,
                   obsVars, relisted>>

(***************************************************************************)
(* collector.py: collect_all                                               *)
(***************************************************************************)
\* the locals of _collect_one_device and collect_device_logs, dead once
\* the device is done
ResetDeviceLocals ==
    /\ now_ms' = 0
    /\ bookmark' = NoBookmark
    /\ start_time' = 0
    /\ records' = <<>>
    /\ last_row_key' = "None"
    /\ prev_row_key' = "None"
    /\ page' = 0
    /\ attempt' = 0
    /\ data' = NoData
    /\ inserted' = 0
    /\ pages' = 0
    /\ answers' = <<>>
    /\ delays' = <<>>
    /\ retKeys' = <<>>

\* collect_all up to the first await: record_run_start
CollectStart ==
    /\ cpc = "idle"
    /\ Len(collection_runs) < MaxRuns
    /\ collection_runs' = record_run_start(collection_runs)
    /\ run_id' = Len(collection_runs) + 1
    /\ result' = NewResult
    /\ devices' = <<>>
    /\ dev_i' = 0
    /\ exhausted' = {}
    /\ apiFailed' = {}
    /\ cpc' = "discover"
    /\ UNCHANGED <<device_logs, collection_bookmarks, now, lastSet, bcastVars,
                   watchVars, now_ms, bookmark, start_time, records,
                   last_row_key, prev_row_key, page, attempt, data, inserted,
                   pages, answers, delays, retKeys, submitted, reportedNew,
                   relisted>>

\* variant: an empty cursor does not end the listing
DiscoverPageUntilEmpty(n, key, plain) ==
    /\ cpc = "discover"
    /\ n = 0 \/ Len(devices) + n <= Len(Inventory)
    /\ LET batch == SubSeq(Inventory, Len(devices) + 1, Len(devices) + n)
           all == devices \o batch
           done == plain \/ batch = <<>>
       IN  /\ devices' = all
           /\ IF done
              THEN /\ result' = [result EXCEPT !.devices_found = Len(all)]
                   /\ dev_i' = 1
                   /\ cpc' = "next_device"
              ELSE UNCHANGED <<result, dev_i, cpc>>
    /\ UNCHANGED <<storeVars, now, lastSet, bcastVars, watchVars, obsVars,
                   run_id, now_ms, bookmark, start_time, records,
                   last_row_key, prev_row_key, page, attempt, data, inserted,
                   relisted>>

\* discover_devices: one page of the device listing; n devices, the
\* cursor key, as a plain list or as a dict
DiscoverPage(n, key, plain) ==
    /\ cpc = "discover"
    /\ n = 0 \/ Len(devices) + n <= Len(Inventory)
    /\ LET batch == SubSeq(Inventory, Len(devices) + 1, Len(devices) + n)
           all == devices \o batch
           done == plain \/ batch = <<>> \/ key = ""
       IN  /\ devices' = all
           /\ IF done
              THEN /\ result' = [result EXCEPT !.devices_found = Len(all)]
                   /\ dev_i' = 1
                   /\ cpc' = "next_device"
              ELSE UNCHANGED <<result, dev_i, cpc>>
    /\ UNCHANGED <<storeVars, now, lastSet, bcastVars, watchVars, obsVars,
                   run_id, now_ms, bookmark, start_time, records,
                   last_row_key, prev_row_key, page, attempt, data, inserted,
                   relisted>>

\* a listing that misbehaves: whatever cursor it is sent, devices.list
\* answers with a dict holding the first n entries and the cursor "A"
\* again; the loop of discover_devices extends its list and asks for the
\* next page.  The model keeps the first MaxListed entries of the list.
DiscoverRepeat(n) ==
    /\ cpc = "discover"
    /\ n \in 1..Len(Inventory)
    /\ LET batch == SubSeq(Inventory, 1, n)
       IN  devices' = IF Len(devices) + n <= MaxListed
                      THEN devices \o batch
                      ELSE devices
    /\ relisted' = 1 - relisted
    /\ UNCHANGED <<storeVars, now, lastSet, bcastVars, watchVars, obsVars,
                   cpc, run_id, dev_i, result, now_ms, bookmark, start_time,
                   records, last_row_key, prev_row_key, page, attempt, data,
                   inserted>>

\* variant: discover_devices raises and no finally clause ends the run
DiscoverFailNoFinally ==
    /\ cpc = "discover"
    /\ cpc' = "raised"
    /\ UNCHANGED <<storeVars, now, lastSet, bcastVars, watchVars, obsVars,
                   run_id, devices, dev_i, result, now_ms, bookmark,
                   start_time, records, last_row_key, prev_row_key, page,
                   attempt, data, inserted, relisted>>

\* discover_devices raises: the finally clause of collect_all ends the run
DiscoverFail ==
    /\ cpc = "discover"
    /\ collection_runs' =
           record_run_end(collection_runs, run_id, result.devices_collected,
                          result.logs_collected, RunStatus(result))
    /\ cpc' = "raised"
    /\ UNCHANGED <<device_logs, collection_bookmarks, now, lastSet, bcastVars,
                   watchVars, obsVars, run_id, devices, dev_i, result, now_ms,
                   bookmark, start_time, records, last_row_key, prev_row_key,
                   page, attempt, data, inserted, relisted>>

\* the task running collect_all is cancelled at an await: CancelledError
\* is no Exception, so only the finally clause runs before it propagates
CancelRun ==
    /\ cpc \in AwaitPoints
    /\ collection_runs' =
           record_run_end(collection_runs, run_id, result.devices_collected,
                          result.logs_collected, RunStatus(result))
    /\ cpc' = "cancelled"
    /\ UNCHANGED <<device_logs, collection_bookmarks, now, lastSet, bcastVars,
                   watchVars, obsVars, run_id, devices, dev_i, result, now_ms,
                   bookmark, start_time, records, last_row_key, prev_row_key,
                   page, attempt, data, inserted, relisted>>

\* for device in devices: an entry without id is skipped
SkipDevice ==
    /\ cpc = "next_device"
    /\ dev_i <= Len(devices)
    /\ devices[dev_i] = ""
    /\ dev_i' = dev_i + 1
    /\ UNCHANGED <<storeVars, now, lastSet, bcastVars, watchVars, obsVars,
                   cpc, run_id, devices, result, now_ms, bookmark, start_time,
                   records, last_row_key, prev_row_key, page, attempt, data,
                   inserted, relisted>>

\* _collect_one_device up to the first page request
BeginDevice ==
    /\ cpc = "next_device"
    /\ dev_i <= Len(devices)
    /\ devices[dev_i] # ""
    /\ now_ms' = now
    /\ bookmark' = get_device_bookmark(collection_bookmarks, devices[dev_i])
    /\ start_time' = QueryStart(bookmark', now)
    /\ records' = <<>>
    /\ last_row_key' = "None"
    /\ prev_row_key' = "None"
    /\ page' = 0
    /\ attempt' = 0
    /\ pages' = 1
    /\ answers' = <<>>
    /\ delays' = <<>>
    /\ retKeys' = <<>>
    /\ cpc' = "fetch"
    /\ UNCHANGED <<storeVars, now, lastSet, bcastVars, watchVars, run_id,
                   devices, dev_i, result, data, inserted, exhausted,
                   apiFailed, submitted, reportedNew, relisted>>

\* the loop over devices is over: the finally clause, then return
FinishRun ==
    /\ cpc = "next_device"
    /\ dev_i > Len(devices)
    /\ collection_runs' =
           record_run_end(collection_runs, run_id, result.devices_collected,
                          result.logs_collected, RunStatus(result))
    /\ cpc' = "returned"
    /\ UNCHANGED <<device_logs, collection_bookmarks, now, lastSet, bcastVars,
                   watchVars, obsVars, run_id, devices, dev_i, result, now_ms,
                   bookmark, start_time, records, last_row_key, prev_row_key,
                   page, attempt, data, inserted, relisted>>

(***************************************************************************)
(* collector.py: collect_device_logs and _fetch_logs_page                  *)
(***************************************************************************)
\* get_device_logs returns a page: the body of the while loop
FetchOk(logs, has_next, next_key) ==
    /\ cpc = "fetch"
    /\ answers' = Append(answers, "ok")
    /\ data' = [ok |-> TRUE, logs |-> logs, has_next |-> has_next,
                next_row_key |-> next_key]
    /\ records' = records \o
           [i \in 1..Len(logs) |-> from_api(devices[dev_i], logs[i])]
    /\ retKeys' = Last2(Append(retKeys, next_key))
    /\ IF has_next /\ ~StallGuard(next_key, prev_row_key)
       THEN /\ prev_row_key' = last_row_key
            /\ last_row_key' = next_key
            /\ page' = page + 1
            /\ cpc' = "page_sleep"
       ELSE /\ cpc' = "insert"
            /\ UNCHANGED <<prev_row_key, last_row_key, page>>
    /\ UNCHANGED <<storeVars, now, lastSet, bcastVars, watchVars, run_id,
                   devices, dev_i, result, now_ms, bookmark, start_time,
                   attempt, inserted, pages, delays, exhausted, apiFailed,
                   submitted, reportedNew, relisted>>

\* asyncio.sleep(request_delay) is over: the while condition
PageSleepDone ==
    /\ cpc = "page_sleep"
    /\ IF PageLoopGuard(page)
       THEN /\ cpc' = "fetch"
            /\ attempt' = 0
            /\ pages' = pages + 1
            /\ answers' = <<>>
            /\ data' = NoData
            /\ delays' = <<>>
       ELSE /\ cpc' = "insert"
            /\ UNCHANGED <<attempt, pages, answers, delays, data>>
    /\ UNCHANGED <<storeVars, now, lastSet, bcastVars, watchVars, run_id,
                   devices, dev_i, result, now_ms, bookmark, start_time,
                   records, last_row_key, prev_row_key, page, inserted,
                   retKeys, exhausted, apiFailed, submitted, reportedNew,
                   relisted>>

\* variant: every API error is retried like the rate limit
FetchApiErrorRetried(code) ==
    /\ cpc = "fetch"
    /\ answers' = Append(answers, IF code = RATE_LIMIT_CODE THEN "rl" ELSE "err")
    /\ delays' = Append(delays, BackoffDelay(attempt))
    /\ cpc' = "backoff"
    /\ UNCHANGED <<storeVars, now, lastSet, bcastVars, watchVars, run_id,
                   devices, dev_i, now_ms, bookmark, start_time, records,
                   last_row_key, prev_row_key, page, attempt, data, inserted,
                   pages, retKeys, exhausted, submitted, reportedNew, result,
                   apiFailed, relisted>>

\* variant: an error on a later page stores the records of the pages
\* before it
FetchApiErrorStoresPages(code) ==
    /\ cpc = "fetch"
    /\ answers' = Append(answers, IF code = RATE_LIMIT_CODE THEN "rl" ELSE "err")
    /\ IF code = RATE_LIMIT_CODE
       THEN /\ delays' = Append(delays, BackoffDelay(attempt))
            /\ cpc' = "backoff"
            /\ UNCHANGED <<result, apiFailed, device_logs>>
       ELSE /\ result' = RecordFailure(result, devices[dev_i])
            /\ apiFailed' = apiFailed \cup {dev_i}
            /\ device_logs' = insert_logs(device_logs, records).logs
            /\ cpc' = "device_sleep"
            /\ UNCHANGED delays
    /\ UNCHANGED <<collection_bookmarks, collection_runs, now, lastSet,
                   bcastVars, watchVars, run_id,
                   devices, dev_i, now_ms, bookmark, start_time, records,
                   last_row_key, prev_row_key, page, attempt, data, inserted,
                   pages, retKeys, exhausted, submitted, reportedNew,
                   relisted>>

\* get_device_logs raises TuyaAPIError(code): back off on the rate-limit
\* code, otherwise the error leaves _collect_one_device and collect_all
\* records it
FetchApiError(code) ==
    /\ cpc = "fetch"
    /\ answers' = Append(answers, IF code = RATE_LIMIT_CODE THEN "rl" ELSE "err")
    /\ IF code = RATE_LIMIT_CODE
       THEN /\ delays' = Append(delays, BackoffDelay(attempt))
            /\ cpc' = "backoff"
            /\ UNCHANGED <<result, apiFailed>>
       ELSE /\ result' = RecordFailure(result, devices[dev_i])
            /\ apiFailed' = apiFailed \cup {dev_i}
            /\ cpc' = "device_sleep"
            /\ UNCHANGED delays
    /\ UNCHANGED <<storeVars, now, lastSet, bcastVars, watchVars, run_id,
                   devices, dev_i, now_ms, bookmark, start_time, records,
                   last_row_key, prev_row_key, page, attempt, data, inserted,
                   pages, retKeys, exhausted, submitted, reportedNew,
                   relisted>>

\* asyncio.sleep(delay) is over: the next attempt, or None once the
\* attempts are used up
BackoffDone ==
    /\ cpc = "backoff"
    /\ attempt' = attempt + 1
    /\ IF RetryGuard(attempt + 1)
       THEN /\ cpc' = "fetch"
            /\ UNCHANGED <<data, exhausted>>
       ELSE /\ data' = NoData
            /\ exhausted' = exhausted \cup {dev_i}
            /\ cpc' = "insert"
    /\ UNCHANGED <<storeVars, now, lastSet, bcastVars, watchVars, run_id,
                   devices, dev_i, result, now_ms, bookmark, start_time,
                   records, last_row_key, prev_row_key, page, inserted, pages,
                   answers, delays, retKeys, apiFailed, submitted,
                   reportedNew, relisted>>

(***************************************************************************)
(* collector.py: _collect_one_device after the pages                       *)
(***************************************************************************)
\* variant: a pass without records moves the bookmark to the end of its
\* query window
CollectorInsertMarksEmpty ==
    /\ cpc = "insert"
    /\ IF records # <<>>
       THEN LET res == insert_logs(device_logs, records)
            IN  /\ device_logs' = res.logs
                /\ inserted' = res.rowcount
                /\ submitted' = submitted \cup
                       {<<KeyOf(r), "api">> : r \in SeqRange(records)}
                /\ reportedNew' = reportedNew \cup
                       {<<k, "api">> : k \in res.new}
                /\ cpc' = "set_bookmark"
                /\ UNCHANGED <<result, collection_bookmarks>>
       ELSE /\ result' = [result EXCEPT !.devices_collected = @ + 1]
            /\ collection_bookmarks' =
                   set_device_bookmark(collection_bookmarks, devices[dev_i],
                                       now_ms)
            /\ cpc' = "device_sleep"
            /\ UNCHANGED <<device_logs, inserted, submitted, reportedNew>>
    /\ UNCHANGED <<collection_runs, now, lastSet, bcastVars, watchVars,
                   run_id, devices, dev_i, now_ms, bookmark, start_time,
                   records, last_row_key, prev_row_key, page, attempt, data,
                   pages, answers, delays, retKeys, exhausted, apiFailed,
                   relisted>>

\* if records: insert_logs(records) (one transaction); else the device
\* counts as collected
CollectorInsert ==
    /\ cpc = "insert"
    /\ IF records # <<>>
       THEN LET res == insert_logs(device_logs, records)
            IN  /\ device_logs' = res.logs
                /\ inserted' = res.rowcount
                /\ submitted' = submitted \cup
                       {<<KeyOf(r), "api">> : r \in SeqRange(records)}
                /\ reportedNew' = reportedNew \cup
                       {<<k, "api">> : k \in res.new}
                /\ cpc' = "set_bookmark"
                /\ UNCHANGED result
       ELSE /\ result' = [result EXCEPT !.devices_collected = @ + 1]
            /\ cpc' = "device_sleep"
            /\ UNCHANGED <<device_logs, inserted, submitted, reportedNew>>
    /\ UNCHANGED <<collection_bookmarks, collection_runs, now, lastSet,
                   bcastVars, watchVars, run_id, devices, dev_i, now_ms,
                   bookmark, start_time, records, last_row_key, prev_row_key,
                   page, attempt, data, pages, answers, delays, retKeys,
                   exhausted, apiFailed, relisted>>

\* variant: the bookmark is the upper bound of the window of the pass
CollectorSetBookmarkToWindowEnd ==
    /\ cpc = "set_bookmark"
    /\ collection_bookmarks' =
           set_device_bookmark(collection_bookmarks, devices[dev_i], now_ms)
    /\ result' = [result EXCEPT !.logs_collected = @ + inserted,
                                !.devices_collected = @ + 1]
    /\ cpc' = "device_sleep"
    /\ UNCHANGED <<device_logs, collection_runs, now, lastSet, bcastVars,
                   watchVars, obsVars, run_id, devices, dev_i, now_ms,
                   bookmark, start_time, records, last_row_key, prev_row_key,
                   page, attempt, data, inserted, relisted>>

\* variant: the bookmark is written only when the insert stored a new row
CollectorSetBookmarkIfNew ==
    /\ cpc = "set_bookmark"
    /\ collection_bookmarks' =
           IF inserted > 0
           THEN set_device_bookmark(collection_bookmarks, devices[dev_i],
                                    MaxEventTime(records))
           ELSE collection_bookmarks
    /\ result' = [result EXCEPT !.logs_collected = @ + inserted,
                                !.devices_collected = @ + 1]
    /\ cpc' = "device_sleep"
    /\ UNCHANGED <<device_logs, collection_runs, now, lastSet, bcastVars,
                   watchVars, obsVars, run_id, devices, dev_i, now_ms,
                   bookmark, start_time, records, last_row_key, prev_row_key,
                   page, attempt, data, inserted, relisted>>

\* set_device_bookmark(device_id, max_time) (one transaction) and the
\* counters of the result
CollectorSetBookmark ==
    /\ cpc = "set_bookmark"
    /\ collection_bookmarks' =
           set_device_bookmark(collection_bookmarks, devices[dev_i],
                               MaxEventTime(records))
    /\ result' = [result EXCEPT !.logs_collected = @ + inserted,
                                !.devices_collected = @ + 1]
    /\ cpc' = "device_sleep"
    /\ UNCHANGED <<device_logs, collection_runs, now, lastSet, bcastVars,
                   watchVars, obsVars, run_id, devices, dev_i, now_ms,
                   bookmark, start_time, records, last_row_key, prev_row_key,
                   page, attempt, data, inserted, relisted>>

\* set_device_bookmark raises (the database is locked, the disk is full)
\* after insert_logs has committed: the handler of collect_all records the
\* device as failed and logs_collected is not reached
CollectorBookmarkFault ==
    /\ cpc = "set_bookmark"
    /\ result' = RecordFailure(result, devices[dev_i])
    /\ cpc' = "device_sleep"
    /\ UNCHANGED <<storeVars, now, lastSet, bcastVars, watchVars, obsVars,
                   run_id, devices, dev_i, now_ms, bookmark, start_time,
                   records, last_row_key, prev_row_key, page, attempt, data,
                   inserted, relisted>>

\* asyncio.sleep(request_delay) after a device is over
DeviceSleepDone ==
    /\ cpc = "device_sleep"
    /\ dev_i' = dev_i + 1
    /\ cpc' = "next_device"
    /\ ResetDeviceLocals
    /\ UNCHANGED <<storeVars, now, lastSet, bcastVars, watchVars, run_id,
                   devices, result, exhausted, apiFailed, submitted,
                   reportedNew, relisted>>

\* variant: run_daemon without the except clause, a run that raised ends it
DaemonStopsOnRaise ==
    /\ cpc = "returned"
    /\ Len(collection_runs) < MaxRuns
    /\ cpc' = "idle"
    /\ UNCHANGED <<storeVars, now, lastSet, bcastVars, watchVars, obsVars,
                   run_id, devices, dev_i, result, now_ms, bookmark,
                   start_time, records, last_row_key, prev_row_key, page,
                   attempt, data, inserted, relisted>>

\* run_daemon: asyncio.sleep(poll_interval) is over, after a run that
\* returned or raised
DaemonSleepDone ==
    /\ cpc \in {"returned", "raised"}
    /\ Len(collection_runs) < MaxRuns
    /\ cpc' = "idle"
    /\ UNCHANGED <<storeVars, now, lastSet, bcastVars, watchVars, obsVars,
                   run_id, devices, dev_i, result, now_ms, bookmark,
                   start_time, records, last_row_key, prev_row_key, page,
                   attempt, data, inserted, relisted>>

(***************************************************************************)
(* watcher.py: EventWatcher._stream                                        *)
(***************************************************************************)
\* variant: the watcher counts and bookmarks every message it is handed
StoredAlways(n) == TRUE

\* if inserted:
StoredAsNew(n) == n # 0

\* the loop body up to the first commit: event_to_record, insert_logs (one
\* transaction), the session counter; resume is where a duplicate leaves
\* the watcher
StreamStore(e, resume) ==
    LET record == event_to_record(e)
        res == insert_logs(device_logs, <<record>>)
    IN  /\ device_logs' = res.logs
        /\ submitted' = submitted \cup {<<KeyOf(record), "ws">>}
        /\ reportedNew' = reportedNew \cup {<<k, "ws">> : k \in res.new}
        /\ seen' = seen \cup {<<e, record.event_id>>}
        /\ IF StoredAsNew(res.rowcount)
           THEN /\ count' = count + 1
                /\ event' = e
                /\ wpc' = "bookmark"
           ELSE /\ wpc' = resume
                /\ UNCHANGED <<count, event>>

\* set_device_bookmark(event.device_id, event.timestamp) (one transaction)
StreamBookmark(resume) ==
    /\ wpc = "bookmark"
    /\ collection_bookmarks' =
           set_device_bookmark(collection_bookmarks, event.device_id,
                               event.timestamp)
    /\ event' = NoEvent
    /\ wpc' = resume

\* the subscription yields an event and the watcher stores it; the socket
\* is left out: the acknowledgement and the wait for the next message,
\* which touch nothing but the socket, are part of the step
WatcherReceive(e) ==
    /\ wpc = "recv"
    /\ delivered < MaxLive
    /\ delivered' = delivered + 1
    /\ StreamStore(e, "recv")
    /\ UNCHANGED <<collection_bookmarks, collection_runs, now, lastSet,
                   bcastVars, collVars, cur, msg, pending, drops, pages,
                   answers, delays, retKeys, exhausted, apiFailed, relisted>>

WatcherSetBookmark ==
    /\ StreamBookmark("recv")
    /\ UNCHANGED <<device_logs, collection_runs, now, lastSet, bcastVars,
                   collVars, count, delivered, cur, msg, pending, drops, seen,
                   obsVars, relisted>>

(***************************************************************************)
(* events.py: EventsMixin.subscribe, with the watcher as its consumer      *)
(***************************************************************************)
\* the exceptions that leave subscribe and EventWatcher.run
WatcherRaised == {"UnboundLocalError", "AttributeError", "OperationalError"}

\* variant: the generator acknowledges only what the consumer stored
ResumePointNewOnly(n) == IF n # 0 THEN "ack" ELSE "recv"

\* where the generator resumes after `yield event`: count += 1, then _ack,
\* whatever the consumer did with the event
ResumePoint(n) == "ack"

\* websockets.connect hands over a connection
SubscribeConnect ==
    /\ wpc = "connect"
    /\ wpc' = "recv"
    /\ UNCHANGED <<storeVars, now, lastSet, bcastVars, collVars, obsVars,
                   event, count, delivered, cur, msg, pending, drops, seen,
                   relisted>>

\* the socket hands over raw message m: json.loads, _decode_message, and
\* for an event the yield and the watcher's loop body up to its commit
SubscribeRecv(m) ==
    /\ wpc = "recv"
    /\ m \in pending
    /\ cur' = m
    /\ IF m.kind = "event"
       THEN /\ msg' = m
            /\ StreamStore(m.event, ResumePoint(0))
       ELSE /\ IF m.kind = "not_json"
               THEN \* json.loads raises and msg keeps its value; the
                    \* handler reads msg
                    /\ msg' = msg
                    /\ wpc' = IF msg = Unbound THEN "UnboundLocalError"
                              ELSE "ack"
               ELSE IF m.kind = "not_object"
               THEN \* msg.get raises in _decode_message and again in
                    \* the handler
                    /\ msg' = m
                    /\ wpc' = "AttributeError"
               ELSE \* _decode_message returns None, or raises on a
                    \* payload that is no object and the handler
                    \* acknowledges
                    /\ msg' = m
                    /\ wpc' = "ack"
            /\ UNCHANGED <<device_logs, submitted, reportedNew, seen,
                           count, event>>
    /\ UNCHANGED <<collection_bookmarks, collection_runs, now, lastSet,
                   bcastVars, collVars, delivered, pending, drops, pages,
                   answers, delays, retKeys, exhausted, apiFailed, relisted>>

\* variant: the generator acknowledges the message before it yields the
\* event, and insert_logs raises
SubscribeRecvFaultAcked(m) ==
    /\ wpc = "recv"
    /\ m \in pending
    /\ m.kind = "event"
    /\ cur' = m
    /\ msg' = m
    /\ pending' = {p \in pending : p.messageId # m.messageId}
    /\ wpc' = "OperationalError"
    /\ UNCHANGED <<storeVars, now, lastSet, bcastVars, collVars, obsVars,
                   event, count, delivered, drops, seen, relisted>>

\* the same, and insert_logs raises (the database is locked, the disk is
\* full): nothing handles it in _stream or run
SubscribeRecvFault(m) ==
    /\ wpc = "recv"
    /\ m \in pending
    /\ m.kind = "event"
    /\ cur' = m
    /\ msg' = m
    /\ wpc' = "OperationalError"
    /\ UNCHANGED <<storeVars, now, lastSet, bcastVars, collVars, obsVars,
                   event, count, delivered, pending, drops, seen, relisted>>

\* set_device_bookmark in the watcher's loop body, then back to the
\* generator
SubscribeBookmark ==
    /\ StreamBookmark(ResumePoint(1))
    /\ UNCHANGED <<device_logs, collection_runs, now, lastSet, bcastVars,
                   collVars, count, delivered, cur, msg, pending, drops, seen,
                   obsVars, relisted>>

\* set_device_bookmark raises
BookmarkFault ==
    /\ wpc = "bookmark"
    /\ wpc' = "OperationalError"
    /\ UNCHANGED <<storeVars, now, lastSet, bcastVars, collVars, obsVars,
                   event, count, delivered, cur, msg, pending, drops, seen,
                   relisted>>

\* _ack(ws, msg.get("messageId", "")): the frame is sent and the source
\* drops the message of that id
SubscribeAck ==
    /\ wpc = "ack"
    /\ pending' = {p \in pending : p.messageId # msg.messageId}
    /\ wpc' = "recv"
    /\ UNCHANGED <<storeVars, now, lastSet, bcastVars, collVars, obsVars,
                   event, count, delivered, cur, msg, drops, seen, relisted>>

\* variant: ConnectionClosed is not handled and leaves subscribe
ConnectionClosedFatal ==
    /\ wpc \in {"recv", "ack"}
    /\ drops < MaxDrops
    /\ drops' = drops + 1
    /\ wpc' = "ConnectionClosed"
    /\ UNCHANGED <<storeVars, now, lastSet, bcastVars, collVars, obsVars,
                   event, count, delivered, cur, msg, pending, seen,
                   relisted>>

\* the connection is lost while the generator waits for a message or sends
\* an acknowledgement: except websockets.ConnectionClosed
ConnectionClosed ==
    /\ wpc \in {"recv", "ack"}
    /\ drops < MaxDrops
    /\ drops' = drops + 1
    /\ wpc' = "reconnect_sleep"
    /\ UNCHANGED <<storeVars, now, lastSet, bcastVars, collVars, obsVars,
                   event, count, delivered, cur, msg, pending, seen,
                   relisted>>

\* the source closes the connection in good order while the generator
\* waits for a message: `async for raw_msg in ws` ends without an
\* exception and the outer `async for ws in websockets.connect(...)` takes
\* its next connection, the except clause and its sleep are not entered
ConnectionClosedOK ==
    /\ wpc = "recv"
    /\ drops < MaxDrops
    /\ drops' = drops + 1
    /\ wpc' = "connect"
    /\ UNCHANGED <<storeVars, now, lastSet, bcastVars, collVars, obsVars,
                   event, count, delivered, cur, msg, pending, seen,
                   relisted>>

\* asyncio.sleep(1) is over: continue with the next connection
ReconnectSleepDone ==
    /\ wpc = "reconnect_sleep"
    /\ wpc' = "connect"
    /\ UNCHANGED <<storeVars, now, lastSet, bcastVars, collVars, obsVars,
                   event, count, delivered, cur, msg, pending, drops, seen,
                   relisted>>

(***************************************************************************)
(* server.py: EventBroadcaster and the SSE endpoint event_stream           *)
(***************************************************************************)
\* how the task _subscribe_loop can have ended
BroadcasterEnded == {"returned", "cancelled"}

\* EventBroadcaster.subscribe, called by event_stream
BroadcasterSubscribe ==
    /\ Len(queues) < MaxSubs
    /\ queues' = Append(queues, NewQueue(Len(fanned)))
    /\ subscribers' = Append(subscribers, Len(queues) + 1)
    /\ UNCHANGED <<storeVars, now, lastSet, collVars, watchVars, obsVars, bpc,
                   fanned, lifeVars, relisted>>

\* EventBroadcaster.unsubscribe(q), called from the finally clause of
\* event_stream when the client goes away
BroadcasterUnsubscribe(q) ==
    /\ q \in DOMAIN queues
    /\ subscribers' = Remove(subscribers, q)
    /\ UNCHANGED <<storeVars, now, lastSet, collVars, watchVars, obsVars, bpc,
                   queues, fanned, lifeVars, relisted>>

\* event_stream reads the next entry of its queue
QueueGet(q) ==
    /\ q \in DOMAIN queues
    /\ queues[q].items # <<>>
    /\ queues' = [queues EXCEPT ![q].items = Tail(@),
                                ![q].got = Append(@, Head(queues[q].items))]
    /\ UNCHANGED <<storeVars, now, lastSet, collVars, watchVars, obsVars, bpc,
                   subscribers, fanned, lifeVars, relisted>>

\* variant: the broadcaster also stores the event it fans out
FanOutStored(e) ==
    /\ bpc = "listening"
    /\ Len(fanned) < MaxFanned
    /\ fanned' = Append(fanned, e)
    /\ queues' = FanOutQueues(subscribers, queues, Payload(e))
    /\ subscribers' = UnsubscribeEach(subscribers, Dead(subscribers, queues))
    /\ device_logs' = insert_logs(device_logs, <<event_to_record(e)>>).logs
    /\ UNCHANGED <<collection_bookmarks, collection_runs, now, lastSet,
                   collVars, watchVars, obsVars, bpc, lifeVars, relisted>>

\* the subscription yields event e: _fan_out(e), which has no await
FanOut(e) ==
    /\ bpc = "listening"
    /\ Len(fanned) < MaxFanned
    /\ fanned' = Append(fanned, e)
    /\ queues' = FanOutQueues(subscribers, queues, Payload(e))
    /\ subscribers' = UnsubscribeEach(subscribers, Dead(subscribers, queues))
    /\ UNCHANGED <<storeVars, now, lastSet, collVars, watchVars, obsVars, bpc,
                   lifeVars, relisted>>

\* variant: any InvalidStatus is retried
InvalidStatusRetried(status) ==
    /\ bpc = "listening"
    /\ bpc' = "sleep"
    /\ UNCHANGED <<storeVars, now, lastSet, collVars, watchVars, obsVars,
                   subscribers, queues, fanned, lifeVars, relisted>>

\* the subscription raises websockets InvalidStatus with this HTTP status
InvalidStatus(status) ==
    /\ bpc = "listening"
    /\ bpc' = IF status = 401 THEN "returned" ELSE "sleep"
    /\ UNCHANGED <<storeVars, now, lastSet, collVars, watchVars, obsVars,
                   subscribers, queues, fanned, lifeVars, relisted>>

\* the subscription raises any other Exception
UnexpectedError ==
    /\ bpc = "listening"
    /\ bpc' = "sleep"
    /\ UNCHANGED <<storeVars, now, lastSet, collVars, watchVars, obsVars,
                   subscribers, queues, fanned, lifeVars, relisted>>

\* asyncio.sleep(5) is over: `while True` opens the subscription again
BroadcasterSleepDone ==
    /\ bpc = "sleep"
    /\ bpc' = "listening"
    /\ UNCHANGED <<storeVars, now, lastSet, collVars, watchVars, obsVars,
                   subscribers, queues, fanned, lifeVars, relisted>>

\* EventBroadcaster.stop at shutdown: a task that is not done is cancelled
\* at its await, and the list of subscribers is cleared
BroadcasterStop ==
    /\ bpc' = IF bpc \in BroadcasterEnded THEN bpc ELSE "cancelled"
    /\ subscribers' = <<>>
    /\ UNCHANGED <<storeVars, now, lastSet, collVars, watchVars, obsVars,
                   queues, fanned, lifeVars, relisted>>

(***************************************************************************)
(* server.py: EventBroadcaster.start and stop, for any caller.  Every task *)
(* start() creates is followed: "running" until it returns on a 401 or is  *)
(* cancelled; a cancellation is requested by stop() and delivered at the   *)
(* task's next await.                                                      *)
(***************************************************************************)
\* Task.done()
TaskDone == {"returned", "cancelled"}

\* the tasks that are not done
ActiveTasks == {t \in DOMAIN tasks : tasks[t] \notin TaskDone}

\* variant: start() always creates a task
StartGuardAlways == TRUE

\* if self._task is None or self._task.done()
StartGuard == task = 0 \/ tasks[task] \in TaskDone

\* EventBroadcaster.start(): synchronous
BroadcasterStart ==
    /\ Len(tasks) < MaxTasks
    /\ IF StartGuard
       THEN /\ tasks' = Append(tasks, "running")
            /\ task' = Len(tasks) + 1
            /\ raced' = (raced \/ stopping # 0)
       ELSE UNCHANGED <<tasks, task, raced>>
    /\ UNCHANGED <<storeVars, now, lastSet, collVars, watchVars, obsVars,
                   bpc, subscribers, queues, fanned, stopping, relisted>>

\* _subscribe_loop of task t returns on a 401
TaskUnauthorized(t) ==
    /\ t \in DOMAIN tasks
    /\ tasks[t] = "running"
    /\ tasks' = [tasks EXCEPT ![t] = "returned"]
    /\ UNCHANGED <<storeVars, now, lastSet, collVars, watchVars, obsVars,
                   bpc, subscribers, queues, fanned, task, stopping, raced,
                   relisted>>

\* EventBroadcaster.stop() up to its await: a task that is not done is
\* cancelled and awaited; with no such task stop() runs to its end
StopBegin ==
    /\ stopping = 0
    /\ IF task # 0 /\ tasks[task] \notin TaskDone
       THEN /\ tasks' = [tasks EXCEPT ![task] = "cancelling"]
            /\ stopping' = task
            /\ UNCHANGED <<task, subscribers>>
       ELSE /\ task' = 0
            /\ subscribers' = <<>>
            /\ UNCHANGED <<tasks, stopping>>
    /\ UNCHANGED <<storeVars, now, lastSet, collVars, watchVars, obsVars,
                   bpc, queues, fanned, raced, relisted>>

\* the cancellation reaches task t at its await: CancelledError is
\* re-raised by _subscribe_loop and the task is done
TaskCancelled(t) ==
    /\ t \in DOMAIN tasks
    /\ tasks[t] = "cancelling"
    /\ tasks' = [tasks EXCEPT ![t] = "cancelled"]
    /\ UNCHANGED <<storeVars, now, lastSet, collVars, watchVars, obsVars,
                   bpc, subscribers, queues, fanned, task, stopping, raced,
                   relisted>>

\* stop() resumes after `await self._task`: self._task = None and
\* self._subscribers.clear()
StopEnd ==
    /\ stopping # 0
    /\ tasks[stopping] \in TaskDone
    /\ task' = 0
    /\ subscribers' = <<>>
    /\ stopping' = 0
    /\ UNCHANGED <<storeVars, now, lastSet, collVars, watchVars, obsVars,
                   bpc, queues, fanned, tasks, raced, relisted>>

(***************************************************************************)
(* watcher.py: EventWatcher.run with a duration                            *)
(***************************************************************************)
\* where _stream is suspended at an await: the connection attempt, the
\* receive, the sending of an acknowledgement, the reconnection sleep.
\* insert_logs and set_device_bookmark are synchronous and follow each
\* other without an await.
StreamAwaitPoints == {"connect", "recv", "ack", "reconnect_sleep"}

\* variant: run does not catch the TimeoutError of wait_for
WatcherTimeoutRaises ==
    /\ wpc \in StreamAwaitPoints
    /\ wpc' = "TimeoutError"
    /\ UNCHANGED <<storeVars, now, lastSet, bcastVars, collVars, obsVars,
                   event, count, delivered, cur, msg, pending, drops, seen,
                   relisted>>

\* the duration is over: wait_for cancels _stream at its await and raises
\* TimeoutError, run catches it and returns self._count
WatcherTimeout ==
    /\ wpc \in StreamAwaitPoints
    /\ wpc' = "returned"
    /\ UNCHANGED <<storeVars, now, lastSet, bcastVars, collVars, obsVars,
                   event, count, delivered, cur, msg, pending, drops, seen,
                   relisted>>

(***************************************************************************)
(* Spec: the `collect --daemon` and `watch` processes on one database.     *)
(* The cloud project lists one device, the log API answers every request   *)
(* with a single page of entries of the query window.                      *)
(***************************************************************************)
\* the pages the log API may answer with in the current state
PageLogs ==
    IF Len(records) >= MaxRecords THEN {<<>>}
    ELSE SeqsUpTo(ApiEntries(start_time, now_ms), MaxRecords - Len(records))

Next ==
    \/ CollectStart
    \/ DiscoverPage(1, "", FALSE)
    \/ BeginDevice
    \/ FinishRun
    \/ \E l \in PageLogs : FetchOk(l, FALSE, "")
    \/ CollectorInsert
    \/ CollectorSetBookmark
    \/ DeviceSleepDone
    \/ DaemonSleepDone
    \/ \E e \in FeedEvents : WatcherReceive(e)
    \/ WatcherSetBookmark

Spec == Init /\ [][Next]_vars

(***************************************************************************)
(* SpecCollector: one `collect` run (collect_all once) while the clock     *)
(* advances; the listing and the log API page, fail and rate-limit.        *)
(***************************************************************************)
NextCollector ==
    \/ Tick
    \/ CollectStart
    \/ \E n \in 0..Len(Inventory), key \in {"", "A"}, plain \in BOOLEAN :
           DiscoverPage(n, key, plain)
    \/ DiscoverFail
    \/ CancelRun
    \/ SkipDevice
    \/ BeginDevice
    \/ FinishRun
    \/ \E l \in PageLogs, has_next \in BOOLEAN, key \in Cursors \cup {""} :
           /\ has_next => page + 1 < MaxSourcePages
           /\ FetchOk(l, has_next, key)
    \/ PageSleepDone
    \/ \E code \in ErrorCodes : FetchApiError(code)
    \/ BackoffDone
    \/ CollectorInsert
    \/ CollectorSetBookmark
    \/ DeviceSleepDone

SpecCollector == Init /\ [][NextCollector]_vars

(***************************************************************************)
(* SpecDaemon: `collect --daemon` alone; the listing names one device or   *)
(* fails, the log API answers with one page or with an error.              *)
(***************************************************************************)
NextDaemon ==
    \/ CollectStart
    \/ DiscoverPage(1, "", FALSE)
    \/ DiscoverFail
    \/ BeginDevice
    \/ FinishRun
    \/ \E l \in PageLogs : FetchOk(l, FALSE, "")
    \/ FetchApiError(UNKNOWN_ERROR_CODE)
    \/ CollectorInsert
    \/ CollectorSetBookmark
    \/ DeviceSleepDone
    \/ DaemonSleepDone

SpecDaemon == Init /\ [][NextDaemon]_vars

\* every await of run_daemon and of the run completes
FairSpecDaemon == SpecDaemon /\ WF_vars(NextDaemon)

(***************************************************************************)
(* SpecPager: collect_device_logs for one device against a log API that    *)
(* answers every page request as it likes (any has_next, any cursor, rate  *)
(* limits), with empty pages.                                              *)
(***************************************************************************)
InitPager ==
    /\ device_logs = {}
    /\ collection_bookmarks = <<>>
    /\ collection_runs = record_run_start(<<>>)
    /\ now \in EventTimes
    /\ cpc = "fetch"
    /\ run_id = 1
    /\ devices = <<"d1">>
    /\ dev_i = 1
    /\ result = [NewResult EXCEPT !.devices_found = 1]
    /\ now_ms = now
    /\ bookmark = NoBookmark
    /\ start_time = QueryStart(NoBookmark, now)
    /\ records = <<>>
    /\ last_row_key = "None"
    /\ prev_row_key = "None"
    /\ page = 0
    /\ attempt = 0
    /\ data = NoData
    /\ inserted = 0
    /\ wpc = "recv"
    /\ event = NoEvent
    /\ count = 0
    /\ delivered = 0
    /\ FeedIdle
    /\ BroadcasterInit
    /\ lastSet = <<>>
    /\ relisted = 0
    /\ pages = 1
    /\ answers = <<>>
    /\ delays = <<>>
    /\ retKeys = <<>>
    /\ exhausted = {}
    /\ apiFailed = {}
    /\ submitted = {}
    /\ reportedNew = {}

NextPager ==
    \/ \E has_next \in BOOLEAN, key \in Cursors \cup {""} :
           FetchOk(<<>>, has_next, key)
    \/ PageSleepDone
    \/ FetchApiError(RATE_LIMIT_CODE)
    \/ BackoffDone

SpecPager == InitPager /\ [][NextPager]_vars

\* every await of collect_device_logs completes
FairSpecPager == SpecPager /\ WF_vars(NextPager)

(***************************************************************************)
(* SpecInsert: LogStorage.insert_logs called with any batches, one after   *)
(* the other, on a new database.                                           *)
(***************************************************************************)
BatchRecords ==
    {LogRecord("d1", id, t, from) :
        id \in {1, 2}, t \in {OVERLAP_MS}, from \in {"1", "ws"}}

StorageInsert(batch) ==
    /\ cpc = "idle"
    /\ LET res == insert_logs(device_logs, batch)
       IN  /\ device_logs' = res.logs
           /\ inserted' = res.rowcount
    /\ records' = batch
    /\ UNCHANGED <<collection_bookmarks, collection_runs, now, lastSet,
                   bcastVars, watchVars, obsVars, cpc, run_id, devices, dev_i,
                   result, now_ms, bookmark, start_time, last_row_key,
                   prev_row_key, page, attempt, data, relisted>>

NextInsert == \E batch \in SeqsUpTo(BatchRecords, MaxBatch) : StorageInsert(batch)

SpecInsert == Init /\ [][NextInsert]_vars

(***************************************************************************)
(* SpecKey: event_to_record applied to any events.                         *)
(***************************************************************************)
ConvertEvent(e) ==
    /\ Cardinality(seen) < MaxLive
    /\ seen' = seen \cup {<<e, event_to_record(e).event_id>>}
    /\ UNCHANGED <<storeVars, now, lastSet, bcastVars, collVars, obsVars, wpc,
                   event, count, delivered, cur, msg, pending, drops,
                   relisted>>

NextKey == \E e \in LiveEvents : ConvertEvent(e)

SpecKey == Init /\ [][NextKey]_vars

(***************************************************************************)
(* SpecWatcher: `watch` alone.  The source holds MaxLive messages of any   *)
(* kind and hands over any message it holds unacknowledged; the connection *)
(* drops and the storage fails.                                            *)
(***************************************************************************)
InitFeed(bodies) ==
    /\ device_logs = {}
    /\ collection_bookmarks = <<>>
    /\ collection_runs = <<>>
    /\ now = OVERLAP_MS      \* subscribe and _stream do not read the clock
    /\ CollectorIdle
    /\ wpc = "connect"
    /\ event = NoEvent
    /\ count = 0
    /\ delivered = 0
    /\ cur = Unbound
    /\ msg = Unbound
    /\ \E f \in [1..MaxLive -> bodies] :
           pending = {Message(i, f[i]) : i \in 1..MaxLive}
    /\ drops = 0
    /\ seen = {}
    /\ ObsInit
    /\ BroadcasterInit
    /\ lastSet = <<>>
    /\ relisted = 0

InitWatcher == InitFeed(MessageBodies)

NextWatcher ==
    \/ SubscribeConnect
    \/ \E m \in pending : SubscribeRecv(m)
    \/ \E m \in pending : SubscribeRecvFault(m)
    \/ SubscribeBookmark
    \/ BookmarkFault
    \/ SubscribeAck
    \/ ConnectionClosed
    \/ ConnectionClosedOK
    \/ ReconnectSleepDone

SpecWatcher == InitWatcher /\ [][NextWatcher]_vars

(***************************************************************************)
(* SpecStream: `watch` alone against a source of well-formed messages and  *)
(* a storage that works; the connection drops.                             *)
(***************************************************************************)
\* the feed of one device: the loop body treats every device alike
StreamBodies == {b \in EventBodies : b.event.device_id = "d1"}

InitStream == InitFeed(StreamBodies)

NextStream ==
    \/ SubscribeConnect
    \/ \E m \in pending : SubscribeRecv(m)
    \/ SubscribeBookmark
    \/ SubscribeAck
    \/ ConnectionClosed
    \/ ConnectionClosedOK
    \/ ReconnectSleepDone

SpecStream == InitStream /\ [][NextStream]_vars

\* every await of subscribe completes, and the source goes on handing over
\* what it holds unacknowledged
FairSpecStream == SpecStream /\ WF_vars(NextStream)

(***************************************************************************)
(* SpecBroadcaster: the dashboard server's EventBroadcaster with SSE       *)
(* clients that connect, read and go away in any order, while the          *)
(* subscription stays open.                                                *)
(***************************************************************************)
\* the server of a new installation; _subscribe_loop and _fan_out do not
\* read the clock
InitBroadcaster ==
    /\ Init
    /\ now = OVERLAP_MS

NextBroadcaster ==
    \/ BroadcasterSubscribe
    \/ \E q \in DOMAIN queues : BroadcasterUnsubscribe(q)
    \/ \E q \in DOMAIN queues : QueueGet(q)
    \/ \E e \in BroadcastEvents : FanOut(e)

SpecBroadcaster == InitBroadcaster /\ [][NextBroadcaster]_vars

(***************************************************************************)
(* SpecTask: the background task _subscribe_loop from start() to stop(),   *)
(* with a subscription that yields events and raises.                      *)
(***************************************************************************)
\* the HTTP statuses of a refused handshake in the model
HandshakeStatuses == {401, 403}

NextTask ==
    \/ BroadcasterSubscribe
    \/ \E e \in BroadcastEvents : FanOut(e)
    \/ \E st \in HandshakeStatuses : InvalidStatus(st)
    \/ UnexpectedError
    \/ BroadcasterSleepDone
    \/ BroadcasterStop

SpecTask == InitBroadcaster /\ [][NextTask]_vars

\* asyncio.sleep(5) completes
FairSpecTask == SpecTask /\ WF_vars(BroadcasterSleepDone)

(***************************************************************************)
(* SpecTap: the dashboard server's broadcaster next to `watch`, each with  *)
(* its own connection to the feed.  The feed delivers one event twice, to  *)
(* both; the watcher's storage fails at any call.                          *)
(***************************************************************************)
\* the one event of the feed
TapBodies ==
    {b \in EventBodies : /\ b.event.device_id = "d1"
                         /\ b.event.timestamp = OVERLAP_MS}

TapEvents == {b.event : b \in TapBodies}

InitTap == InitFeed(TapBodies)

WatcherStep ==
    \/ SubscribeConnect
    \/ \E m \in pending : SubscribeRecv(m)
    \/ \E m \in pending : SubscribeRecvFault(m)
    \/ SubscribeBookmark
    \/ BookmarkFault
    \/ SubscribeAck

BroadcasterStep ==
    \/ BroadcasterSubscribe
    \/ \E q \in DOMAIN queues : BroadcasterUnsubscribe(q)
    \/ \E e \in TapEvents : FanOut(e)
    \/ UnexpectedError
    \/ BroadcasterSleepDone

NextTap == WatcherStep \/ BroadcasterStep

SpecTap == InitTap /\ [][NextTap]_vars

(***************************************************************************)
(***************************************************************************)
(* SpecSession: `watch --duration` against a source of messages of any     *)
(* kind; the connection drops, the storage fails, and the duration ends at *)
(* any await.                                                              *)
(***************************************************************************)
NextSession ==
    \/ NextWatcher
    \/ WatcherTimeout

SpecSession == InitWatcher /\ [][NextSession]_vars

(* SpecTimed: `watch --duration` against a source of well-formed messages  *)
(* and a storage that works; the duration ends at any await.               *)
(***************************************************************************)
NextTimed ==
    \/ NextStream
    \/ WatcherTimeout

SpecTimed == InitStream /\ [][NextTimed]_vars

\* the loop body runs on, and the timer of wait_for fires
FairSpecTimed ==
    SpecTimed /\ WF_vars(NextStream) /\ WF_vars(WatcherTimeout)

(***************************************************************************)
(* SpecBookmark: LogStorage.set_device_bookmark and get_device_bookmark    *)
(* called in any order for any device and time.                            *)
(***************************************************************************)
\* the times handed to set_device_bookmark
BookmarkTimes == {k * OVERLAP_MS : k \in 0..MaxTick}

\* set_device_bookmark(d, t) and its commit
SetBookmark(d, t) ==
    /\ collection_bookmarks' = set_device_bookmark(collection_bookmarks, d, t)
    /\ lastSet' = <<d, t>>
    /\ UNCHANGED <<device_logs, collection_runs, now, bcastVars, collVars,
                   watchVars, obsVars, relisted>>

\* bookmark = get_device_bookmark(d)
GetBookmark(d) ==
    /\ bookmark' = get_device_bookmark(collection_bookmarks, d)
    /\ UNCHANGED <<storeVars, now, lastSet, bcastVars, watchVars, obsVars,
                   cpc, run_id, devices, dev_i, result, now_ms, start_time,
                   records, last_row_key, prev_row_key, page, attempt, data,
                   inserted, relisted>>

NextBookmark ==
    \/ \E d \in DeviceIds, t \in BookmarkTimes : SetBookmark(d, t)
    \/ \E d \in DeviceIds : GetBookmark(d)

SpecBookmark == Init /\ [][NextBookmark]_vars

(***************************************************************************)
(* SpecWindow: `collect --daemon` with one device while the clock          *)
(* advances; the log API answers in pages and rate-limits.                 *)
(***************************************************************************)
NextWindow ==
    \/ Tick
    \/ CollectStart
    \/ DiscoverPage(1, "", FALSE)
    \/ BeginDevice
    \/ FinishRun
    \/ \E l \in PageLogs, has_next \in BOOLEAN :
           /\ has_next => page + 1 < MaxSourcePages
           /\ FetchOk(l, has_next, IF has_next THEN "A" ELSE "")
    \/ PageSleepDone
    \/ FetchApiError(RATE_LIMIT_CODE)
    \/ BackoffDone
    \/ CollectorInsert
    \/ CollectorSetBookmark
    \/ DeviceSleepDone
    \/ DaemonSleepDone

SpecWindow == Init /\ [][NextWindow]_vars

(***************************************************************************)
(* SpecRestart: `collect` runs for one device, each in a process of its    *)
(* own, against a log API that holds one entry per second elapsed and      *)
(* answers in pages of one entry, oldest first.  A run may be cancelled    *)
(* at an await and the process may be killed between the insert and the    *)
(* bookmark update; the next process starts from the database alone.       *)
(***************************************************************************)
\* the event times the log API holds inside the query window of the pass
SourceTimes == {t \in EventTimes : start_time <= t /\ t <= now_ms}

\* the n-th smallest member of a set of times
NthTime(S, n) == CHOOSE t \in S : Cardinality({u \in S : u < t}) = n - 1

\* the page the log API answers the current request with
SourcePage ==
    IF page < Cardinality(SourceTimes)
    THEN <<[event_id |-> 1, event_time |-> NthTime(SourceTimes, page + 1)]>>
    ELSE <<>>

SourceHasNext == page + 1 < Cardinality(SourceTimes)

\* the cursor key of a page: no key repeats within three pages
CursorOf(p) == IF p % 3 = 0 THEN "A" ELSE IF p % 3 = 1 THEN "B" ELSE "C"

\* get_device_logs returns the next page of the window
FetchSource ==
    FetchOk(SourcePage, SourceHasNext,
            IF SourceHasNext THEN CursorOf(page) ELSE "")

\* the synchronous part of a pass: insert_logs and set_device_bookmark,
\* each its own committed transaction
SyncPoints == {"insert", "set_bookmark"}

\* the process is killed inside the synchronous part: nothing more is
\* written, not even the end of the run
ProcessKilled ==
    /\ cpc \in SyncPoints
    /\ cpc' = "killed"
    /\ UNCHANGED <<storeVars, now, lastSet, bcastVars, watchVars, obsVars,
                   run_id, devices, dev_i, result, now_ms, bookmark,
                   start_time, records, last_row_key, prev_row_key, page,
                   attempt, data, inserted, relisted>>

\* a new `collect` process on the same database: a new LogCollector,
\* nothing kept from the run before
Restart ==
    /\ cpc \in {"cancelled", "killed", "returned"}
    /\ Len(collection_runs) < MaxRuns
    /\ cpc' = "idle"
    /\ run_id' = 0
    /\ devices' = <<>>
    /\ dev_i' = 0
    /\ result' = NewResult
    /\ ResetDeviceLocals
    /\ UNCHANGED <<storeVars, now, lastSet, bcastVars, watchVars, exhausted,
                   apiFailed, submitted, reportedNew, relisted>>

NextRestart ==
    \/ Tick
    \/ CollectStart
    \/ DiscoverPage(1, "", FALSE)
    \/ BeginDevice
    \/ FinishRun
    \/ FetchSource
    \/ PageSleepDone
    \/ CollectorInsert
    \/ CollectorSetBookmark
    \/ DeviceSleepDone
    \/ CancelRun
    \/ ProcessKilled
    \/ Restart

SpecRestart == Init /\ [][NextRestart]_vars

(***************************************************************************)
(* SpecLifecycle: start() and stop() of one EventBroadcaster called in any *)
(* order by any coroutine of the event loop, with SSE clients subscribing. *)
(* bpc, the position of the one task of the other specifications, is not   *)
(* used here.                                                              *)
(***************************************************************************)
NextLifecycle ==
    \/ BroadcasterStart
    \/ BroadcasterSubscribe
    \/ \E t \in 1..MaxTasks : TaskUnauthorized(t)
    \/ StopBegin
    \/ \E t \in 1..MaxTasks : TaskCancelled(t)
    \/ StopEnd

SpecLifecycle == Init /\ [][NextLifecycle]_vars

(***************************************************************************)
(* SpecSummary: one run of collect_all over listings with and without ids, *)
(* each device answered with one page or an error, with a storage that may *)
(* fail at the bookmark update and a run that may be cancelled.            *)
(***************************************************************************)
NextSummary ==
    \/ CollectStart
    \/ \E n \in 0..Len(Inventory), key \in {"", "A"}, plain \in BOOLEAN :
           DiscoverPage(n, key, plain)
    \/ DiscoverFail
    \/ CancelRun
    \/ SkipDevice
    \/ BeginDevice
    \/ FinishRun
    \/ \E l \in PageLogs : FetchOk(l, FALSE, "")
    \/ FetchApiError(UNKNOWN_ERROR_CODE)
    \/ CollectorInsert
    \/ CollectorSetBookmark
    \/ CollectorBookmarkFault
    \/ DeviceSleepDone

SpecSummary == Init /\ [][NextSummary]_vars

(***************************************************************************)
(* SpecListing: one run of collect_all against a device listing that may   *)
(* end in good order, fail, or answer every page request with the same     *)
(* batch and the same cursor; each device is answered with an empty page.  *)
(***************************************************************************)
NextListing ==
    \/ CollectStart
    \/ \E n \in 0..Len(Inventory), key \in {"", "A"}, plain \in BOOLEAN :
           DiscoverPage(n, key, plain)
    \/ \E n \in 1..Len(Inventory) : DiscoverRepeat(n)
    \/ DiscoverFail
    \/ SkipDevice
    \/ BeginDevice
    \/ FinishRun
    \/ FetchOk(<<>>, FALSE, "")
    \/ CollectorInsert
    \/ DeviceSleepDone

SpecListing == Init /\ [][NextListing]_vars

\* every await of the run completes; which answer the listing gives is
\* the listing's choice
FairSpecListing == SpecListing /\ WF_vars(NextListing)

(***************************************************************************)
(* SpecBacklog: `collect --daemon` for one device against a log API that   *)
(* holds one entry per second since the epoch and answers the window in    *)
(* pages of one entry, oldest first or newest first as its cursor says;    *)
(* a pass ends early when the retries of a page run out or when a page     *)
(* announces a next page without a cursor.                                 *)
(***************************************************************************)
\* the event times the log API holds inside the query window of the pass
HeldTimes == {t \in BookmarkTimes : start_time <= t /\ t <= now_ms}

\* the n-th largest member of a set of times
NthNewest(S, n) == CHOOSE t \in S : Cardinality({u \in S : u > t}) = n - 1

\* the cursors of a listing that runs from the newest entry to the oldest
DownCursors == {"X", "Y", "Z"}
CursorDown(p) == IF p % 3 = 0 THEN "X" ELSE IF p % 3 = 1 THEN "Y" ELSE "Z"

\* the direction the request's cursor stands for: the first request of a
\* pass carries none and the source chooses
DirectionFits(down) ==
    \/ last_row_key = "None"
    \/ down <=> (last_row_key \in DownCursors)

\* the page the log API answers the current request with
HeldPage(down) ==
    IF page < Cardinality(HeldTimes)
    THEN <<[event_id |-> 1,
            event_time |-> IF down THEN NthNewest(HeldTimes, page + 1)
                           ELSE NthTime(HeldTimes, page + 1)]>>
    ELSE <<>>

HeldHasNext == page + 1 < Cardinality(HeldTimes)

\* get_device_logs returns the next page of the window
FetchHeld(down) ==
    /\ DirectionFits(down)
    /\ FetchOk(HeldPage(down), HeldHasNext,
               IF ~HeldHasNext THEN ""
               ELSE IF down THEN CursorDown(page) ELSE CursorOf(page))

\* the same page, announcing a next page with an empty cursor
FetchHeldNoCursor(down) ==
    /\ DirectionFits(down)
    /\ HeldHasNext
    /\ FetchOk(HeldPage(down), TRUE, "")

NextBacklog ==
    \/ Tick
    \/ CollectStart
    \/ DiscoverPage(1, "", FALSE)
    \/ BeginDevice
    \/ FinishRun
    \/ \E down \in BOOLEAN : FetchHeld(down)
    \/ \E down \in BOOLEAN : FetchHeldNoCursor(down)
    \/ PageSleepDone
    \/ FetchApiError(RATE_LIMIT_CODE)
    \/ BackoffDone
    \/ CollectorInsert
    \/ CollectorSetBookmark
    \/ DeviceSleepDone
    \/ DaemonSleepDone

SpecBacklog == Init /\ [][NextBacklog]_vars

(***************************************************************************)
(* Properties.                                                             *)
(***************************************************************************)
\* the tuples either path has handed to insert_logs
SubmittedKeys == {p[1] : p \in submitted}

RowsOf(k) == {r \in device_logs : KeyOf(r) = k}

\* C1: at most one stored record per (resource_id, event_key, event_time)
\* tuple, and the stored count is the number of distinct tuples ever
\* inserted: inserting a stored tuple again adds nothing.
C1_UniqueTuples ==
    /\ \A r1, r2 \in device_logs : KeyOf(r1) = KeyOf(r2) => r1 = r2
    /\ Cardinality(device_logs) = Cardinality(SubmittedKeys)

\* the watcher has inserted the same record twice and the collector none
C1_Witness ==
    /\ delivered = 2
    /\ Cardinality(submitted) = 1
    /\ Cardinality(device_logs) = 1
    /\ collection_runs = <<>>

\* C2: a tuple inserted by both the collector and the watcher, in any
\* order and interleaving, is stored exactly once and exactly one of the
\* two paths had it reported as new.
C2_CrossPathDedup ==
    \A k \in SubmittedKeys :
        (<<k, "api">> \in submitted /\ <<k, "ws">> \in submitted) =>
            /\ Cardinality(RowsOf(k)) = 1
            /\ (<<k, "api">> \in reportedNew) # (<<k, "ws">> \in reportedNew)

\* both paths have inserted one tuple, and the watcher was the first
C2_Witness ==
    \E k \in SubmittedKeys :
        /\ <<k, "api">> \in submitted
        /\ <<k, "ws">> \in reportedNew
        /\ cpc = "set_bookmark"
        /\ wpc = "bookmark"

\* C3 (as claimed): no step lowers the bookmark of a resource.
C3_BookmarkNeverDecreases ==
    [][\A d \in DOMAIN collection_bookmarks :
          /\ d \in DOMAIN collection_bookmarks'
          /\ collection_bookmarks'[d] >= collection_bookmarks[d]]_vars

\* C4: insert_logs returns the number of distinct tuples of the batch that
\* were not stored, the stored tuples become the union of the old ones and
\* the batch's, and an empty batch returns 0 and changes nothing.
C4_InsertReturnsNew ==
    [][LET old == Keys(device_logs)
           batch == Keys(SeqRange(records'))
       IN  /\ inserted' = Cardinality(batch \ old)
           /\ Keys(device_logs') = old \cup batch
           /\ Cardinality(device_logs') = Cardinality(old \cup batch)
           /\ records' = <<>> => inserted' = 0 /\ device_logs' = device_logs
      ]_<<device_logs, records, inserted>>

\* a batch of three records with one new tuple, into a store that held one
C4_Witness ==
    /\ Len(records) = 3
    /\ inserted = 1
    /\ Cardinality(device_logs) = 2

\* C5: the set_bookmark of a pass that found no bookmark writes the largest
\* event_time of the records fetched, whatever their order.
C5_BookmarkIsMax ==
    [][(cpc = "set_bookmark" /\ cpc' = "device_sleep"
           /\ bookmark = NoBookmark) =>
          LET times == {r.event_time : r \in SeqRange(records)}
              bm == collection_bookmarks'[devices[dev_i]]
          IN  bm \in times /\ \A t \in times : t <= bm]_vars

\* a first pass that fetched a later event before an earlier one
C5_Witness ==
    /\ cpc = "device_sleep"
    /\ bookmark = NoBookmark
    /\ Len(records) = 2
    /\ records[1].event_time > records[2].event_time
    /\ devices[dev_i] \in DOMAIN collection_bookmarks
    /\ collection_bookmarks[devices[dev_i]] = records[1].event_time

\* C6 (as claimed): a pass whose insert reported no new record leaves the
\* bookmarks as they were.
C6_BookmarkOnlyIfInserted ==
    [][(cpc = "set_bookmark" /\ cpc' = "device_sleep" /\ inserted = 0) =>
          collection_bookmarks' = collection_bookmarks]_vars

\* C7 (as claimed): once two consecutive pages have returned the same
\* cursor, no further page is requested.
C7_StallGuard ==
    (Len(retKeys) = 2 /\ retKeys[1] = retKeys[2]) =>
        cpc \notin {"fetch", "backoff"}

\* C8: collect_device_logs requests at most MAX_PAGES_PER_DEVICE pages,
\* each at most MAX_RETRIES times, and returns.
C8_PaginationTerminates ==
    /\ [](pages <= MAX_PAGES_PER_DEVICE /\ Len(answers) <= MAX_RETRIES)
    /\ <>(cpc = "insert")

\* the page ceiling ended the loop, after a page that was rate-limited
\* twice
C8_Witness ==
    /\ cpc = "insert"
    /\ pages = MAX_PAGES_PER_DEVICE
    /\ page = MAX_PAGES_PER_DEVICE
    /\ Len(answers) = MAX_RETRIES

\* C9: a page answered rate-limit, rate-limit, ok is requested three
\* times with backoffs of 10 s then 20 s, its entries are used, and the
\* device is not recorded as failed (the run goes on, unless it is
\* cancelled from outside).
C9_RateLimitRetry ==
    answers = <<"rl", "rl", "ok">> =>
        /\ delays = <<10, 20>>
        /\ data.ok
        /\ Len(records) >= Len(data.logs)
        /\ SubSeq(records, Len(records) - Len(data.logs) + 1, Len(records)) =
               [i \in 1..Len(data.logs) |-> from_api(devices[dev_i], data.logs[i])]
        /\ cpc \in {"page_sleep", "insert", "set_bookmark", "device_sleep",
                    "cancelled"}
        /\ devices[dev_i] \notin SeqRange(result.errors)
        /\ dev_i \notin apiFailed
        /\ result.devices_failed = Len(result.errors)

\* the retried page brought an entry and its device counts as collected
C9_Witness ==
    /\ answers = <<"rl", "rl", "ok">>
    /\ cpc = "device_sleep"
    /\ data.logs # <<>>
    /\ result.devices_collected = 1
    /\ result.errors = <<>>

\* C10 (as claimed): a device whose page used up its retries is recorded
\* as failed in the summary of the run and the run ends with errors.
C10_ExhaustionRecorded ==
    (cpc = "returned" /\ exhausted # {}) =>
        /\ \A i \in exhausted : devices[i] \in SeqRange(result.errors)
        /\ result.devices_failed >= Cardinality(exhausted)
        /\ collection_runs[run_id].status = "completed_with_errors"

\* the devices of the listing that carry an id
WithId == {i \in 1..Len(devices) : devices[i] # ""}

\* C11: partial failure isolation.  When collect_all has returned, every
\* device whose collection raised is counted in devices_failed and named by
\* one error string, every other device with an id is counted in
\* devices_collected, logs_collected is the number of rows the run stored,
\* and every record handed to the store is in it; a failure of one device
\* (before or after the others) takes nothing from the others.
C11_PartialFailureIsolation ==
    cpc = "returned" =>
        /\ result.devices_failed = Cardinality(apiFailed)
        /\ Len(result.errors) = Cardinality(apiFailed)
        /\ \A i \in apiFailed : \E j \in 1..Len(result.errors) :
               result.errors[j] = devices[i]
        /\ result.devices_collected = Cardinality(WithId \ apiFailed)
        /\ result.logs_collected =
               Cardinality({p \in reportedNew : p[2] = "api"})
        /\ SubmittedKeys \subseteq Keys(device_logs)

\* resource A (first) raised, resource B (after it) was collected and its
\* events are stored
C11_Witness ==
    /\ cpc = "returned"
    /\ apiFailed = {1}
    /\ result.devices_failed = 1
    /\ result.devices_collected = 1
    /\ result.logs_collected >= 1
    /\ result.errors = <<devices[1]>>
    /\ \E r \in device_logs : r.device_id = devices[3]

\* C12: a failure of the device listing aborts the run.  When collect_all
\* has raised out of discovery, no device was collected (no page request,
\* no record handed to the store, no stored row, no bookmark) and the row
\* of the run is finished.
C12_DiscoveryFailureAborts ==
    cpc = "raised" =>
        /\ pages = 0
        /\ dev_i = 0
        /\ submitted = {}
        /\ device_logs = {}
        /\ collection_bookmarks = <<>>
        /\ result.devices_collected = 0
        /\ collection_runs[run_id].finished
        /\ collection_runs[run_id].status # "running"

\* the listing failed on a later page, after devices had been listed
C12_Witness ==
    /\ cpc = "raised"
    /\ Len(devices) >= 2
    /\ collection_runs[run_id].finished

\* C13: run accounting on all exit paths.  The row of a run is written by
\* record_run_start and then only by the step that leaves collect_all
\* (return, discovery exception, cancellation); while collect_all runs the
\* row says running, and once it has exited the row is finished and holds
\* the counts and the status of the result at the exit.
C13_RunAccounting ==
    /\ [](run_id > 0 =>
            IF cpc \in Exited
            THEN /\ collection_runs[run_id].finished
                 /\ collection_runs[run_id].status = RunStatus(result)
                 /\ collection_runs[run_id].devices_count =
                        result.devices_collected
                 /\ collection_runs[run_id].logs_collected =
                        result.logs_collected
            ELSE cpc # "idle" =>
                 /\ ~collection_runs[run_id].finished
                 /\ collection_runs[run_id].status = "running")
    /\ [][collection_runs' # collection_runs =>
            \/ cpc = "idle" /\ cpc' = "discover"
            \/ cpc \notin Exited /\ cpc' \in Exited]_vars

\* a run cancelled after a device was collected with new rows: the row of
\* the run holds the counts
C13_Witness ==
    /\ cpc = "cancelled"
    /\ result.devices_collected >= 1
    /\ result.logs_collected >= 1
    /\ collection_runs[run_id].finished
    /\ collection_runs[run_id].logs_collected = result.logs_collected

\* C14: the daemon never stops on a failed run.  Every run that was started
\* ends by returning or by raising, and after either end the daemon starts
\* the next run (as long as the model lets the table of runs grow).
C14_DaemonKeepsRunning ==
    /\ (cpc = "discover") ~> (cpc \in {"returned", "raised"})
    /\ \A n \in 1..(MaxRuns - 1) :
           (cpc \in {"returned", "raised"} /\ Len(collection_runs) = n)
               ~> (cpc = "discover" /\ Len(collection_runs) = n + 1)

\* a second run is under way after a first run that raised out of
\* discovery (a row finished as completed with no device; a run that
\* returned has collected the device or recorded its error)
C14_Witness ==
    /\ cpc = "discover"
    /\ Len(collection_runs) = 2
    /\ collection_runs[1].finished
    /\ collection_runs[1].status = "completed"
    /\ collection_runs[1].devices_count = 0

\* two events with the same device_id, timestamp, event_type and data
SameMessage(e1, e2) ==
    /\ e1.device_id = e2.device_id
    /\ e1.timestamp = e2.timestamp
    /\ e1.event_type = e2.event_type
    /\ SameDict(e1.data, e2.data)

\* C15: live dedup determinism.  Two events get the same event_id from
\* event_to_record exactly when they agree on device_id, timestamp,
\* event_type and data, the data compared as dicts, whatever the order of
\* their keys.
C15_KeyDeterminism ==
    \A p, q \in seen : SameMessage(p[1], q[1]) <=> p[2] = q[2]

\* two events whose data hold the same items in a different order were
\* converted, to one event_id
C15_Witness ==
    \E p, q \in seen :
        /\ p[1].data # q[1].data
        /\ p[1].data # <<>>
        /\ SameMessage(p[1], q[1])
        /\ p[2] = q[2]

\* C16: redelivery is harmless.  A step in which the watcher is handed a
\* live message whose tuple is already stored (by an earlier delivery or by
\* the collector) changes neither the stored rows, nor any bookmark, nor
\* the session counter, and leaves the watcher waiting for the next
\* message.
C16_RedeliveryHarmless ==
    [][\A e \in FeedEvents :
          (WatcherReceive(e)
             /\ KeyOf(event_to_record(e)) \in Keys(device_logs))
          => /\ device_logs' = device_logs
             /\ collection_bookmarks' = collection_bookmarks
             /\ count' = count
             /\ wpc' = "recv"]_vars

\* the same message was delivered twice and was stored and counted once
C16_Witness ==
    /\ delivered = 2
    /\ count = 1
    /\ Cardinality({p \in submitted : p[2] = "ws"}) = 1
    /\ Cardinality(seen) = 1
    /\ wpc = "recv"

\* C17 (as claimed): once the watcher has gone on to request the next
\* message, the decoded message it processed is acknowledged: whenever the
\* generator leaves the point where it acknowledges an event, the source
\* no longer holds the message.
C17_AckedOnNextRequest ==
    [][(wpc = "ack" /\ cur.kind = "event" /\ wpc' # "ack")
          => cur.messageId \notin PendingIds(pending')]_vars

\* C17 (amended): every decoded message the watcher has processed, stored
\* as new or found a duplicate, brings the generator to the point where it
\* acknowledges, and the acknowledgement that is sent there carries the
\* identifier of that message and makes the source drop it; a message
\* whose acknowledgement is cut off by a connection loss stays with the
\* source.
C17_AckAfterProcessing ==
    [][/\ \A m \in pending :
             (SubscribeRecv(m) /\ m.kind = "event")
                 => wpc' \in {"bookmark", "ack"}
       /\ SubscribeBookmark => wpc' = "ack"
       /\ (SubscribeAck /\ cur.kind = "event")
             => /\ msg = cur
                /\ cur.messageId \notin PendingIds(pending')]_vars

\* two messages with the same event were processed, the first stored and
\* the second a duplicate, and both were acknowledged
C17_Witness ==
    /\ wpc = "recv"
    /\ pending = {}
    /\ cur.kind = "event"
    /\ count = 1
    /\ Cardinality(seen) = 1
    /\ drops = 0

\* C18 (as claimed): a malformed message is skipped: the step that receives
\* it produces no record, leaves the subscription running and is followed
\* by the acknowledgement of that very message.
C18_MalformedSkipped ==
    [][\A m \in pending :
          (SubscribeRecv(m) /\ m.kind \in Malformed)
              => /\ device_logs' = device_logs
                 /\ seen' = seen
                 /\ wpc' = "ack"
                 /\ msg'.messageId = m.messageId]_vars

\* C19 (as claimed): a storage fault while one live message is persisted
\* does not end the watcher: after a failed insert or a failed bookmark
\* update the watcher has not raised.
C19_StorageFaultNotFatal ==
    [][((\E m \in pending : SubscribeRecvFault(m)) \/ BookmarkFault)
          => wpc' \notin WatcherRaised]_vars

\* the messages of a source of well-formed messages
EventMessages == {Message(i, b) : i \in 1..MaxLive, b \in EventBodies}

Received(q) == queues[q].got \o queues[q].items

\* the payloads of the events handed to the broadcaster after the first n
FannedAfter(n) ==
    [i \in 1..(Len(fanned) - n) |-> Payload(fanned[n + i])]

IsPrefix(a, b) == Len(a) <= Len(b) /\ a = SubSeq(b, 1, Len(a))

\* C21: slow-subscriber isolation.  In every fan-out the task stays in its
\* loop (nothing raised, nothing awaited), a registered queue that is full
\* is left as it is and is no longer registered afterwards, and every
\* other registered queue has the payload appended and stays registered.
C21_SlowSubscriberIsolation ==
    [][\A e \in BroadcastEvents :
          FanOut(e) =>
              /\ bpc' = "listening"
              /\ \A q \in Registered(subscribers) :
                     IF Full(queues, q)
                     THEN /\ queues'[q] = queues[q]
                          /\ q \notin Registered(subscribers')
                     ELSE /\ queues'[q].items =
                                 Append(queues[q].items, Payload(e))
                          /\ q \in Registered(subscribers')]_vars

\* after a fan-out one queue is full, unread and no longer registered, and
\* another one, registered, holds the event the first one missed
C21_Witness ==
    \E q1, q2 \in DOMAIN queues :
        /\ q1 \notin Registered(subscribers)
        /\ q2 \in Registered(subscribers)
        /\ queues[q1].got = <<>>
        /\ Len(queues[q1].items) = MaxQueue
        /\ Len(fanned) = MaxQueue + 1
        /\ queues[q1].subAt = 0
        /\ queues[q2].subAt = 0
        /\ Received(q2) = FannedAfter(0)

\* C22: fan-out completeness and order.  What a queue has received is at
\* all times a prefix of the events handed to the broadcaster after the
\* queue was created, in that order, and for a registered queue it is all
\* of them; one fan-out adds exactly one entry to each registered queue
\* that is not full and none to any other.
C22_FanOutCompleteInOrder ==
    /\ [](\A q \in DOMAIN queues :
             /\ IsPrefix(Received(q), FannedAfter(queues[q].subAt))
             /\ q \in Registered(subscribers) =>
                    Received(q) = FannedAfter(queues[q].subAt))
    /\ [][\A e \in BroadcastEvents :
             FanOut(e) =>
                 \A q \in DOMAIN queues :
                     Len(queues'[q].items) =
                         IF q \in Registered(subscribers) /\ ~Full(queues, q)
                         THEN Len(queues[q].items) + 1
                         ELSE Len(queues[q].items)]_vars

\* a queue created after the first event is registered, has been read
\* from, and holds two entries behind the one read, while the queue
\* created first was unsubscribed in between
C22_Witness ==
    \E q1, q2 \in DOMAIN queues :
        /\ q1 \notin Registered(subscribers)
        /\ q2 \in Registered(subscribers)
        /\ queues[q1].subAt = 0
        /\ queues[q2].subAt = 1
        /\ Len(fanned) = 3
        /\ fanned[2] # fanned[3]
        /\ Len(queues[q2].got) = 1
        /\ Len(queues[q2].items) = 1
        /\ Len(Received(q1)) = 1

\* C24: unsubscribe is idempotent.  unsubscribe(q) takes q, and nothing
\* but q, out of the registry and leaves the order of the others; on a
\* queue that is not registered it changes nothing; it never touches a
\* queue or the task.
C24_UnsubscribeIdempotent ==
    [][\A q \in DOMAIN queues :
          BroadcasterUnsubscribe(q) =>
              /\ subscribers' = SelectSeq(subscribers, LAMBDA x : x # q)
              /\ q \notin Registered(subscribers) =>
                     subscribers' = subscribers
              /\ queues' = queues
              /\ (bpc' = bpc)]_vars

\* a queue that a fan-out has dropped (full, unread, not registered)
\* while a second one is registered: unsubscribe can be called for the
\* first again
C24_Witness ==
    \E q1, q2 \in DOMAIN queues :
        /\ q1 \notin Registered(subscribers)
        /\ q2 \in Registered(subscribers)
        /\ q1 < q2
        /\ Len(queues[q1].items) = MaxQueue
        /\ Len(fanned) = MaxFanned

\* C23: error classification of the background task.  InvalidStatus with
\* status 401 ends the task, and an ended task never listens again; any
\* other InvalidStatus and any other exception lead to the sleep and
\* nowhere else; the subscription is opened again only from the sleep, and
\* the sleep always leads back to listening unless stop() cancels it; the
\* task ends only on a 401 or by stop().
C23_ErrorClassification ==
    /\ [][InvalidStatus(401) => bpc' = "returned"]_vars
    /\ [][(bpc \in BroadcasterEnded) => (bpc' = bpc)]_vars
    /\ [][((\E st \in HandshakeStatuses \ {401} : InvalidStatus(st))
              \/ UnexpectedError) => bpc' = "sleep"]_vars
    /\ [][(bpc # "listening" /\ bpc' = "listening") => bpc = "sleep"]_vars
    /\ [][(bpc \notin BroadcasterEnded /\ bpc' \in BroadcasterEnded) =>
              (InvalidStatus(401) \/ BroadcasterStop)]_vars
    /\ (bpc = "sleep") ~> (bpc \in {"listening", "cancelled"})

\* the task has returned on a 401 after it had fanned out an event to a
\* subscriber, who stays registered
C23_Witness ==
    /\ bpc = "returned"
    /\ fanned # <<>>
    /\ subscribers # <<>>
    /\ queues[subscribers[1]].items # <<>>

\* C25: the broadcaster and the storage are independent.  A step of the
\* broadcaster (subscribe, unsubscribe, fan-out with or without a dropped
\* subscriber, error and reconnection) changes no table and nothing of the
\* watcher; a step of the watcher, a storage fault included, changes
\* nothing of the broadcaster; whatever the watcher has come to, a
\* listening broadcaster can fan out the next event; and an event fanned
\* out before is fanned out again like a new one.
C25_TapIndependent ==
    /\ [][BroadcasterStep => UNCHANGED <<storeVars, watchVars>>]_vars
    /\ [][WatcherStep => UNCHANGED bcastVars]_vars
    /\ []((bpc = "listening" /\ Len(fanned) < MaxFanned) =>
             \A e \in TapEvents : ENABLED FanOut(e))
    /\ [][\A e \in TapEvents :
             (FanOut(e) /\ \E i \in DOMAIN fanned : fanned[i] = e) =>
                 /\ fanned' = Append(fanned, e)
                 /\ \A q \in Registered(subscribers) :
                        ~Full(queues, q) =>
                            queues'[q].items =
                                Append(queues[q].items, Payload(e))]_vars

\* the watcher has ended on a storage fault with nothing stored, and a
\* registered subscriber holds two copies of the one event
C25_Witness ==
    /\ wpc = "OperationalError"
    /\ device_logs = {}
    /\ Len(fanned) >= 2
    /\ fanned[1] = fanned[2]
    /\ \E q \in Registered(subscribers) :
           /\ Len(queues[q].items) = 2
           /\ queues[q].items[1] = queues[q].items[2]

\* the tuples insert_logs reported as new to the watcher
StoredBySession == {p[1] : p \in {x \in reportedNew : x[2] = "ws"}}

\* C26: bounded duration.  When the duration ends the watcher stops with
\* no exception, the store and the counter as they were; a stopped watcher
\* stays stopped and its records stay stored; the count it returns is the
\* number of records the session stored; and the watcher does stop.
C26_BoundedDuration ==
    /\ [][WatcherTimeout =>
              /\ wpc' = "returned"
              /\ UNCHANGED <<storeVars, count>>]_vars
    /\ [][(wpc = "returned") => UNCHANGED <<wpc, storeVars, count>>]_vars
    /\ [](wpc = "returned" =>
             /\ count = Cardinality(StoredBySession)
             /\ StoredBySession \subseteq Keys(device_logs))
    /\ <>(wpc = "returned")

\* the watcher has stopped after it stored one record, with a message
\* still at the source
C26_Witness ==
    /\ wpc = "returned"
    /\ count = 1
    /\ Cardinality(device_logs) = 1
    /\ Cardinality(pending) = MaxLive

\* C27: bookmark upsert round trip.  In a new database no device has a
\* bookmark, and one appears or changes only by a set for that device;
\* after set_device_bookmark(d, t) and until the next set,
\* get_device_bookmark(d) is t, whatever the value before, and a set
\* leaves every other device as it reads; a get returns the stored value,
\* or None, changes nothing, and no call touches another table.
C27_BookmarkRoundTrip ==
    /\ [](collection_runs = <<>> /\ device_logs = {})
    /\ [](lastSet # <<>> =>
             get_device_bookmark(collection_bookmarks, lastSet[1])
                 = lastSet[2])
    /\ [][\A d \in DeviceIds :
             get_device_bookmark(collection_bookmarks', d)
                 # get_device_bookmark(collection_bookmarks, d)
             => \E t \in BookmarkTimes : SetBookmark(d, t)]_vars
    /\ [][\A d \in DeviceIds, t \in BookmarkTimes :
             SetBookmark(d, t) =>
                 /\ get_device_bookmark(collection_bookmarks', d) = t
                 /\ \A o \in DeviceIds \ {d} :
                        get_device_bookmark(collection_bookmarks', o) =
                            get_device_bookmark(collection_bookmarks, o)]_vars
    /\ [][\A d \in DeviceIds :
             GetBookmark(d) =>
                 /\ collection_bookmarks' = collection_bookmarks
                 /\ bookmark' = IF d \in DOMAIN collection_bookmarks
                                 THEN collection_bookmarks[d]
                                 ELSE NoBookmark]_vars

\* the bookmark of d1 was read as the latest time and is now an earlier
\* one, and d2 never had one
C27_Witness ==
    /\ DOMAIN collection_bookmarks = {"d1"}
    /\ bookmark = MaxTick * OVERLAP_MS
    /\ lastSet = <<"d1", OVERLAP_MS>>
    /\ collection_bookmarks["d1"] = OVERLAP_MS

\* C28: a pass without events.  When a device's pass has fetched no
\* record, the step after the pages counts the device as collected and
\* changes nothing else of the result (no error, no failure), no table and
\* no bookmark; a bookmark is written only by the set_bookmark step of a
\* pass that holds records; and every device with a bookmark has had a
\* record handed to the store.
C28_EmptyPassNoBookmark ==
    /\ [][(CollectorInsert /\ records = <<>>) =>
              /\ result' = [result EXCEPT !.devices_collected = @ + 1]
              /\ UNCHANGED storeVars
              /\ cpc' = "device_sleep"]_vars
    /\ [][collection_bookmarks' # collection_bookmarks =>
              (cpc = "set_bookmark" /\ records # <<>>)]_vars
    /\ [](\A d \in DOMAIN collection_bookmarks :
             \E p \in submitted : p[1][1] = d)

\* the first device with an id was asked for one page, had no event and
\* counts as collected, with no error and no bookmark
C28_Witness ==
    /\ cpc = "device_sleep"
    /\ records = <<>>
    /\ pages = 1
    /\ answers = <<"ok">>
    /\ result.devices_collected = 1
    /\ result.devices_failed = 0
    /\ result.errors = <<>>
    /\ device_logs = {}
    /\ collection_bookmarks = <<>>

\* where the collector is between the first request of a device's pass and
\* its insert
InPass == {"fetch", "page_sleep", "backoff", "insert"}

\* C30: the query window.  When the pass of a device begins, the upper
\* bound is the clock of that moment and the lower bound is the device's
\* bookmark minus 1000 ms, or the clock minus the lookback window where
\* the device has none; both stay as they are for every page request,
\* retry and sleep of the pass, while the clock moves on.
C30_QueryWindow ==
    /\ [][BeginDevice =>
              LET d == devices[dev_i]
              IN  /\ now_ms' = now
                  /\ start_time' =
                         IF d \in DOMAIN collection_bookmarks
                         THEN collection_bookmarks[d] - 1000
                         ELSE now - 604800000]_vars
    /\ [][(cpc \in InPass /\ cpc' \in InPass) =>
              UNCHANGED <<start_time, now_ms>>]_vars

\* the second page of a device that has a bookmark is being requested
\* after the clock has moved on
C30_Witness ==
    /\ cpc = "fetch"
    /\ pages = 2
    /\ bookmark # NoBookmark
    /\ start_time = bookmark - 1000
    /\ now > now_ms

\* what a pass at time t stores in a database that is new, when nothing
\* interrupts it: every entry the log API holds up to t
Uninterrupted(t) ==
    {from_api("d1", e) : e \in ApiEntries(QueryStart(NoBookmark, t), t)}

\* the latest event_time of a non-empty set of records
LatestTime(rs) ==
    CHOOSE t \in {r.event_time : r \in rs} : \A r \in rs : r.event_time <= t

\* C29: restart safety.  Whenever the pass of the device has run to its
\* end, whether or not earlier runs were cancelled between page requests
\* or killed between the insert and the bookmark update, the table holds
\* exactly the records an uninterrupted pass at that time stores, no
\* tuple twice, and the bookmark is the latest event_time among them.
C29_RestartSafe ==
    (cpc = "device_sleep") =>
        /\ device_logs = Uninterrupted(now_ms)
        /\ Cardinality(Keys(device_logs)) = Cardinality(device_logs)
        /\ get_device_bookmark(collection_bookmarks, "d1") =
               LatestTime(Uninterrupted(now_ms))

\* the first process was killed after its insert and before the bookmark
\* update; the second has finished the pass and found every record stored
C29_Witness ==
    /\ cpc = "device_sleep"
    /\ Len(collection_runs) = 2
    /\ collection_runs[1].status = "running"
    /\ inserted = 0
    /\ Cardinality(device_logs) = 2
    /\ get_device_bookmark(collection_bookmarks, "d1") = 2 * OVERLAP_MS

\* the step in which get_device_logs raises an error other than the rate
\* limit
OtherApiError ==
    /\ cpc = "fetch"
    /\ answers' = Append(answers, "err")

\* C31: only the rate-limit signal is retried.  An API error with another
\* code on a log page is the last answer of that page: the step that
\* receives it leaves the page loop for the handler of collect_all, which
\* counts the device as failed and appends its error, with no backoff and
\* nothing written to the store; the device's pass never reaches the
\* insert, so the records of its earlier pages are dropped; a backoff
\* follows a rate-limit answer only.
C31_OnlyRateLimitRetried ==
    /\ [][OtherApiError =>
              /\ cpc' = "device_sleep"
              /\ result' = RecordFailure(result, devices[dev_i])
              /\ UNCHANGED <<storeVars, delays, attempt, records>>]_vars
    /\ [][(cpc' = "backoff" /\ cpc # "backoff") =>
              answers' = Append(answers, "rl")]_vars
    /\ [](\A i \in 1..(Len(answers) - 1) : answers[i] = "rl")
    /\ [](cpc \in {"insert", "set_bookmark"} => dev_i \notin apiFailed)
    /\ [][(cpc = "device_sleep" /\ dev_i \in apiFailed) =>
              /\ UNCHANGED <<device_logs, collection_bookmarks>>
              /\ cpc' \in {"device_sleep", "next_device", "cancelled"}
              /\ cpc' = "next_device" => records' = <<>>]_vars

\* the second page of the first device raised an error after the first
\* page had returned a record; nothing of the device is stored
C31_Witness ==
    /\ cpc = "device_sleep"
    /\ dev_i = 1
    /\ apiFailed = {1}
    /\ pages = 2
    /\ answers = <<"err">>
    /\ records # <<>>
    /\ device_logs = {}
    /\ result.devices_failed = 1
    /\ result.errors = <<devices[1]>>

\* C32: the status of a finished run.  Once collect_all has exited, the row
\* of the run says completed_with_errors exactly when a device failed
\* during the run, which is exactly when the error list of the result is
\* not empty, and completed otherwise; a run that raised out of the device
\* listing is completed with zero counts; no finished row has another
\* status.
C32_RunStatus ==
    /\ (run_id > 0 /\ cpc \in Exited) =>
           /\ (collection_runs[run_id].status = "completed_with_errors")
                  <=> (apiFailed # {})
           /\ (apiFailed # {}) <=> (result.errors # <<>>)
           /\ (collection_runs[run_id].status = "completed")
                  <=> (apiFailed = {})
    /\ (cpc = "raised") =>
           /\ collection_runs[run_id].status = "completed"
           /\ collection_runs[run_id].devices_count = 0
           /\ collection_runs[run_id].logs_collected = 0
    /\ \A i \in 1..Len(collection_runs) :
           IF collection_runs[i].finished
           THEN collection_runs[i].status \in
                    {"completed", "completed_with_errors"}
           ELSE collection_runs[i].status = "running"

\* a run has returned with one device failed and one collected: its row
\* says completed_with_errors
C32_Witness ==
    /\ cpc = "returned"
    /\ Cardinality(apiFailed) = 1
    /\ result.devices_collected = 1
    /\ collection_runs[run_id].status = "completed_with_errors"

\* the watcher's loop body has handled event e without a new row
HandledAsDuplicate(e) ==
    /\ wpc = "recv"
    /\ cur' # Unbound
    /\ cur'.kind = "event"
    /\ cur'.event = e
    /\ wpc' = "ack"

\* C33: the counter and the bookmark of the live path.  A message whose
\* insert reports a new row adds the row and exactly 1 to the session
\* counter in one step, and the next step of the watcher sets the bookmark
\* of the message's device to the message's timestamp; a message whose
\* insert reports no new row changes neither the counter nor any bookmark;
\* the counter and the bookmarks change in no other way, so the counter is
\* always, and at the return, the number of rows this session added.
C33_CountAndBookmark ==
    /\ [][(count' # count) =>
              /\ count' = count + 1
              /\ wpc = "recv" /\ wpc' = "bookmark"
              /\ KeyOf(event_to_record(event')) \notin Keys(device_logs)
              /\ device_logs' = device_logs \cup {event_to_record(event')}]_vars
    /\ [][(wpc = "bookmark") =>
              /\ wpc' = "ack"
              /\ collection_bookmarks' =
                     set_device_bookmark(collection_bookmarks,
                                         event.device_id, event.timestamp)
              /\ get_device_bookmark(collection_bookmarks', event.device_id) =
                     event_to_record(event).event_time
              /\ UNCHANGED <<count, device_logs>>]_vars
    /\ [][(\E e \in {m.event : m \in pending} : HandledAsDuplicate(e)) =>
              UNCHANGED <<count, storeVars>>]_vars
    /\ [][(device_logs' # device_logs) => count' = count + 1]_vars
    /\ [][(collection_bookmarks' # collection_bookmarks) =>
              wpc = "bookmark"]_vars
    /\ [](count = Cardinality(StoredBySession))
    /\ [](count = Cardinality(device_logs))

\* two messages were stored as new and the first, redelivered after a
\* connection loss, has just been handled as a duplicate: the counter is 2
\* and the bookmark is still that of the second
C33_Witness ==
    /\ wpc = "ack"
    /\ count = 2
    /\ drops >= 1
    /\ Cardinality(device_logs) = 2
    /\ cur.kind = "event"
    /\ get_device_bookmark(collection_bookmarks, cur.event.device_id) #
           cur.event.timestamp

\* start() finds the field None or naming a task that is done
FieldFree == task = 0 \/ tasks[task] \in TaskDone

\* stop() runs to its end in this step
StopReturns == StopEnd \/ (StopBegin /\ stopping' = 0)

WithoutId == {i \in 1..Len(devices) : devices[i] = ""}

\* the ids of the devices the run recorded as failed
FailedIds == SeqRange(result.errors)

\* C35 as stated: during a run devices_failed is the length of errors and
\* devices_collected + devices_failed is at most devices_found; when
\* collect_all has returned the sum is devices_found minus the entries
\* without id, and logs_collected is the number of rows the run added to
\* the table.
C35_RunSummary ==
    /\ result.devices_failed = Len(result.errors)
    /\ result.devices_collected + result.devices_failed
           <= result.devices_found
    /\ (cpc = "returned") =>
           /\ result.devices_collected + result.devices_failed =
                  result.devices_found - Cardinality(WithoutId)
           /\ result.logs_collected = Cardinality(device_logs)

\* C35, amended: the same, with logs_collected the number of rows added by
\* the devices whose pass ran to its end: the rows of a device whose
\* bookmark update raised after the insert are in the table and are not
\* counted.
C35_RunSummaryOfCompleted ==
    /\ result.devices_failed = Len(result.errors)
    /\ result.devices_collected + result.devices_failed
           <= result.devices_found
    /\ result.logs_collected <= Cardinality(device_logs)
    /\ (cpc = "returned") =>
           /\ result.devices_collected + result.devices_failed =
                  result.devices_found - Cardinality(WithoutId)
           /\ result.logs_collected =
                  Cardinality({r \in device_logs :
                                   r.device_id \notin FailedIds})

\* a run over three entries, one without id, has returned: the first
\* device failed at its bookmark update with its row stored, the other
\* was collected with a new row
C35_Witness ==
    /\ cpc = "returned"
    /\ result.devices_found = 3
    /\ result.devices_collected = 1
    /\ result.devices_failed = 1
    /\ result.errors = <<"d1">>
    /\ result.logs_collected = 1
    /\ \E r \in device_logs : r.device_id = "d1"
    /\ \E r \in device_logs : r.device_id = "d2"

\* C36 (as claimed): every run that has started its device listing
\* finishes by returning or raising, also when the listing answers every
\* page with the same non-empty batch and the same non-empty cursor.
C36_RunFinishes == (cpc = "discover") ~> (cpc \in {"returned", "raised"})

\* C36, amended: the listing loop ends exactly on a plain list, an empty
\* batch or an empty cursor, and goes on after every other answer; a run
\* whose listing from some point on no longer repeats its batch and cursor
\* finishes by returning or raising.
C36_RunFinishesUnlessRelisted ==
    /\ [][(\E n \in 0..Len(Inventory), key \in {"", "A"}, plain \in BOOLEAN :
               /\ DiscoverPage(n, key, plain)
               /\ (plain \/ n = 0 \/ key = "")) =>
              (cpc' = "next_device" /\ result'.devices_found = Len(devices'))]_vars
    /\ [][(\E n \in 1..Len(Inventory) :
               DiscoverPage(n, "A", FALSE) \/ DiscoverRepeat(n)) =>
              (cpc' = "discover" /\ result' = result)]_vars
    /\ (<>[](relisted = 0) \/ <>[](relisted = 1)) =>
           ((cpc = "discover") ~> (cpc \in {"returned", "raised"}))

\* the listing repeated its first batch and then ended: the run has
\* returned with more entries listed than the project holds
C36_Witness ==
    /\ cpc = "returned"
    /\ Len(devices) > Len(Inventory)
    /\ result.devices_found = Len(devices)

\* the event times of the window the pass has not fetched
UnfetchedTimes == HeldTimes \ {r.event_time : r \in SeqRange(records)}

\* the pass has written its bookmark
PassBookmarked == cpc = "device_sleep" /\ records # <<>>

\* C37 (as claimed): when a pass has written its bookmark while the source
\* still holds events of the window it did not fetch, each of them is no
\* older than the bookmark minus the overlap margin, whatever the order of
\* the pages.
C37_NoEventSkipped ==
    PassBookmarked =>
        \A t \in UnfetchedTimes :
            t >= get_device_bookmark(collection_bookmarks, "d1") - OVERLAP_MS

\* C37, amended: the bookmark a pass writes is the latest event_time it
\* fetched; when the events it fetched are the oldest of the window (the
\* source pages oldest first), every unfetched event is no older than the
\* bookmark, and so inside the next window.
C37_NoEventSkippedOldestFirst ==
    PassBookmarked =>
        /\ get_device_bookmark(collection_bookmarks, "d1") =
               LatestTime(SeqRange(records))
        /\ (\A r \in SeqRange(records) : \A t \in UnfetchedTimes :
                r.event_time <= t) =>
               \A t \in UnfetchedTimes :
                   t >= get_device_bookmark(collection_bookmarks, "d1")

\* an oldest-first pass has stopped after its first page because the
\* retries of the second page ran out: two later events are unfetched and
\* the bookmark is the time of the first
C37_Witness ==
    /\ PassBookmarked
    /\ exhausted = {1}
    /\ Len(records) = 1
    /\ Cardinality(UnfetchedTimes) = 2
    /\ get_device_bookmark(collection_bookmarks, "d1") = 0

\* C38 (as claimed): the first batch pass of a device starts its window at
\* now minus the lookback window, whether or not the watcher has written a
\* bookmark for the device before.
C38_FirstPassLookback ==
    [][(BeginDevice /\ run_id = 1) => start_time' = now - 604800000]_vars

\* C38, amended: the first batch pass of a device starts at now minus the
\* lookback window exactly when the device has no bookmark; when the
\* watcher has written one, the pass starts at that bookmark minus
\* 1000 ms, and the bookmark it read is the timestamp of a live event the
\* watcher stored.
C38_FirstPassFromBookmark ==
    /\ [][(BeginDevice /\ run_id = 1) =>
              start_time' =
                  IF devices[dev_i] \in DOMAIN collection_bookmarks
                  THEN collection_bookmarks[devices[dev_i]] - 1000
                  ELSE now - 604800000]_vars
    /\ [][(BeginDevice /\ run_id = 1) =>
              (bookmark' # NoBookmark <=>
                   \E p \in reportedNew :
                       /\ p[2] = "ws"
                       /\ p[1][1] = devices[dev_i]
                       /\ p[1][3] = bookmark')]_vars
    /\ [](run_id = 1 /\ cpc = "fetch" =>
             start_time = QueryStart(bookmark, now_ms))

\* the first pass of the device is at its page request with the bookmark
\* the watcher wrote: the window starts 1000 ms before it
C38_Witness ==
    /\ run_id = 1
    /\ cpc = "fetch"
    /\ count >= 1
    /\ bookmark # NoBookmark
    /\ start_time = bookmark - 1000
    /\ \A p \in submitted : p[2] = "ws"

\* how the watcher ends: an exception that leaves run, or its return
WatcherEnded == WatcherRaised \cup {"returned"}

\* C39: acknowledge after persist.  The source drops a message only in the
\* step that sends the acknowledgement carrying its identifier, and for a
\* message with an event that step comes after insert_logs has stored its
\* record and after the bookmark update, if there was one, has returned;
\* a message whose insert or bookmark update raised stays with the source,
\* so does the message whose acknowledgement was being sent when the
\* duration ended, and a watcher that has ended acknowledges nothing more.
C39_AckAfterPersist ==
    /\ [][\A m \in pending \ pending' :
              /\ wpc = "ack"
              /\ m.messageId = msg.messageId
              /\ m.kind = "event" =>
                     /\ KeyOf(event_to_record(m.event)) \in Keys(device_logs)
                     /\ event = NoEvent]_vars
    /\ [][((\E m \in pending : SubscribeRecvFault(m)) \/ BookmarkFault) =>
              /\ wpc' \in WatcherRaised
              /\ cur' \in pending']_vars
    /\ [][(WatcherTimeout /\ wpc = "ack" /\ cur.kind = "event") =>
              cur \in pending']_vars
    /\ [][(wpc \in WatcherEnded) => pending' = pending]_vars
    /\ []((wpc \in {"bookmark", "ack"} /\ cur.kind = "event") =>
              cur \in pending)

\* one message was stored and acknowledged, then the insert of the next
\* one raised: the watcher has ended and the source still holds it
C39_Witness ==
    /\ wpc = "OperationalError"
    /\ event = NoEvent
    /\ cur.kind = "event"
    /\ cur \in pending
    /\ count >= 1
    /\ Cardinality(pending) < MaxLive
    /\ KeyOf(event_to_record(cur.event)) \notin Keys(device_logs)

\* the rows of device d in the event table
DeviceRows(d) == {r \in device_logs : r.device_id = d}

\* C40: a failed pass leaves the store as it found it.  While a device's
\* pass requests pages, sleeps and backs off, no row and no bookmark
\* changes; when the pass has failed with an API error, the device's
\* bookmark is the one the pass read at its start, no record of the device
\* was handed to the store or is in it, however many pages had been
\* fetched, and the failure changes no table; and in every step of the run
\* the rows stay stored and the bookmarks of the devices other than the
\* one being collected stay as they are.
C40_FailedPassLeavesStore ==
    /\ [][(cpc \in {"fetch", "page_sleep", "backoff"}) =>
              UNCHANGED <<device_logs, collection_bookmarks>>]_vars
    /\ []((cpc = "device_sleep" /\ dev_i \in apiFailed) =>
              /\ get_device_bookmark(collection_bookmarks, devices[dev_i])
                     = bookmark
              /\ DeviceRows(devices[dev_i]) = {}
              /\ \A k \in SubmittedKeys : k[1] # devices[dev_i])
    /\ [][/\ device_logs \subseteq device_logs'
          /\ \A d \in DOMAIN collection_bookmarks :
                 /\ d \in DOMAIN collection_bookmarks'
                 /\ collection_bookmarks'[d] # collection_bookmarks[d] =>
                        (cpc = "set_bookmark" /\ d = devices[dev_i])]_vars
    /\ [](\A i \in apiFailed :
              /\ DeviceRows(devices[i]) = {}
              /\ devices[i] \notin DOMAIN collection_bookmarks)

\* the last device failed on its second page after its first page had
\* returned a record, and the device before it is stored with its bookmark
C40_Witness ==
    /\ cpc = "device_sleep"
    /\ dev_i = 3
    /\ apiFailed = {3}
    /\ records # <<>>
    /\ pages = 2
    /\ DeviceRows(devices[1]) # {}
    /\ devices[1] \in DOMAIN collection_bookmarks
    /\ DeviceRows(devices[3]) = {}
    /\ devices[3] \notin DOMAIN collection_bookmarks

=============================================================================
